---- MODULE Spec2Model ----
(***************************************************************************)
(* Model of CudaCalcGKCavitationForceKernel (AmoebaCudaKernels.cpp/.h):    *)
(* the host-side orchestration of the Gaussian overlap tree -- parameter   *)
(* intake (initialize, copyParametersToContext), the overlap tree store    *)
(* (init_tree_size, resize_tree_buffers) and the per-step execute with its *)
(* panic handshake.                                                        *)
(*                                                                         *)
(* Units.  Radii and gammas are integers in units of 1e-4 (nm, resp.       *)
(* kJ/mol/nm^2).  A squared difference is then in units of 1e-8, so the    *)
(* code's tolerance 1.e-6 is the integer 100.  The stored radii and the    *)
(* common gamma are floats: the rounding of the cast, of relative size     *)
(* 1e-7, decides a comparison only where the squared difference is exactly *)
(* the tolerance, and is computed there (FloatError); where the cast is    *)
(* exact, the rounding of the double it is compared with (DoubleError).    *)
(*                                                                         *)
(* Host and device.  execute is a sequence of host steps between the       *)
(* points at which the host blocks on the device (the download of the      *)
(* positions, the wait on the panic-download event, the downloads of       *)
(* ovAtomTreePointer and ovVolEnergy in each pass); what the host has      *)
(* queued is run by the device while the host is blocked.                  *)
(***************************************************************************)
EXTENDS Integers, Sequences, FiniteSets, TLC

VARIABLES
    kstate,               \* lifecycle of the kernel object
    numParticles,         \* cu.getNumAtoms(), read by initialize
    gvol_force,           \* the force object bound by initialize
    radiusVector1, radiusVector2, gammaVector1, gammaVector2,
    ishydrogenVector, common_gamma,
    roffset,              \* the radius enlargement of the first pass
    gammaParam1, gammaParam2,   \* device copies of the gamma vectors
    hasInitializedKernels, hasCreatedKernels,
    gtree,                \* the CudaOverlapTree host fields
    PanicButton,          \* device panic array
    pinnedPanicButtonMemory,
    positions,            \* what the host context's positions determine
    forcesValid,          \* cu.setForcesValid
    launches,             \* kernels launched by the latest call, in order
    call,                 \* the latest host-facing call and its outcome
    numContexts,          \* cu.getPlatformData().contexts.size()
    live,                 \* allocations the kernel's pointers hold
    leaked,               \* allocations no pointer holds that were never freed
    hostBuffers,          \* what the latest call did to cu.getForce() and
                          \* cu.getEnergyBuffer(), and under which flags
    consecutivePanics,    \* panicking executes since the last completed one
    executed,             \* execute has been called since initialize
    resizesSinceInit,     \* resize_tree_buffers calls since init_tree_size
    dangling,             \* pointers of a live object to a freed allocation
    freedTwice,           \* allocations that were passed to delete twice
    unsetUsed,            \* members used or released that were never set
    hostAt,               \* "idle", or the wait the host is blocked in
    stream,               \* operations queued on the stream, not yet run
    frame,                \* the flags of the call in progress
    ovVolEnergy,          \* the device's volume energy of each atom
    ov,                   \* the node arrays of one tree section, by slot
    devPhase,             \* the construction phase the device has completed
    pairVolume,           \* the overlap volume of the root with each neighbour
    lanes,                \* the init2Body thread of each neighbour
    init2Writes,          \* how often init2Body has written each slot
    treeTop               \* the first slot of the section not yet reserved

paramVars == <<radiusVector1, radiusVector2, gammaVector1, gammaVector2,
               ishydrogenVector, common_gamma, roffset, gammaParam1,
               gammaParam2>>
execVars == <<hasInitializedKernels, hasCreatedKernels, gtree, PanicButton,
              pinnedPanicButtonMemory, forcesValid>>
memVars == <<live, leaked, dangling, freedTwice>>
histVars == <<consecutivePanics, executed, resizesSinceInit>>
streamVars == <<hostAt, stream, frame, ovVolEnergy>>
hostVars == <<kstate, numParticles, gvol_force, paramVars, execVars, positions,
              call, numContexts, memVars, hostBuffers, histVars, launches,
              unsetUsed, streamVars>>
devVars == <<ov, devPhase, pairVolume, lanes, init2Writes, treeTop>>
vars == <<hostVars, devVars>>

----------------------------------------------------------------------------
(* Bounds *)

MaxAtomsInit == 3
NumAtoms == 2
TileSize == 2
ForceThreadBlockSize == 2
NumForceThreadBlocks == 3
MaxTempFactor == 2
MaxTreeAtoms == 5
MaxTreeSections == 4

Radii == {1500, 1510, 1520}
InitRadii == {1500}
FarRadii == {1500, 1520}
NearRadii == {1490, 1500}
Gammas == {-5, 20, 30}
NewGammas == {0, 20}
SelfVolumes == {1, 2}
ContextCounts == {1, 2}

NULL == << >>

----------------------------------------------------------------------------
(* Host context *)

\* the radius enlargement initialize assigns to roffset
GKCAV_RADIUS_INCREMENT == 5

\* roffset is assigned by initialize alone: what it holds in an object that
\* was only constructed is indeterminate
UnsetOffsets == {0, GKCAV_RADIUS_INCREMENT}

PaddedNumAtoms(n) == TileSize * ((n + TileSize - 1) \div TileSize)

Particles(R, G) == [radius : R, gamma : G, ishydrogen : BOOLEAN]

ForcesOfSize(n, R, G) == [1..n -> Particles(R, G)]

getNumParticles(force) == Len(force)

\* the energy flag handed to updateSelfVolumesForces in both passes
update_energy == 1

\* what a step does to the host force and energy buffers: both launches of
\* updateSelfVolumesForces receive them, whatever the flags of execute
HostBufferUpdate(includeForces, includeEnergy, completed) ==
    [ includeForces |-> includeForces,
      includeEnergy |-> includeEnergy,
      forcesAdded   |-> completed,
      energyAdded   |-> completed /\ update_energy = 1 ]

\* a call that launches nothing leaves the host buffers alone
NoHostBufferUpdate == HostBufferUpdate(FALSE, FALSE, FALSE)

getParticleParameters(force, i) == force[i + 1]

ZeroVector(n) == [i \in 0..(PaddedNumAtoms(n) - 1) |-> 0]

\* x * 2^k brought into [2^23, 2^24) for x = a * 1e-4 > 0, as the quotient
\* q and the remainder r of a * 2^k on division by 10000
RECURSIVE FloatScale(_, _, _)
FloatScale(q, r, k) ==
    IF q >= 8388608 THEN [q |-> q, r |-> r, k |-> k]
    ELSE FloatScale(2 * q + (2 * r) \div 10000, (2 * r) % 10000, k + 1)

\* the cast (float) x of x = a * 1e-4, round to nearest and ties to even:
\* (float) x - x = e * 1e-4 * 2^-k
FloatError(a) ==
    IF a = 0 THEN [e |-> 0, k |-> 0]
    ELSE LET mag == IF a < 0 THEN -a ELSE a
             s == FloatScale(mag \div 10000, mag % 10000, 0)
             up == s.r > 5000 \/ (s.r = 5000 /\ s.q % 2 = 1)
             e == IF up THEN 10000 - s.r ELSE -s.r
         IN  [e |-> IF a < 0 THEN -e ELSE e, k |-> s.k]

\* the casts of the radii and gammas used here, computed once
FloatErrorOf == [a \in Radii \cup NearRadii \cup Gammas \cup NewGammas |-> FloatError(a)]

\* the error of the cast of a stored value
CastError(a) ==
    IF a \in DOMAIN FloatErrorOf THEN FloatErrorOf[a] ELSE FloatError(a)

\* the double nearest to x = b * 1e-4, the value a parameter has before any
\* cast: double(x) - x = e * 1e-4 * 2^-k.  The remainder at 53 bits is the
\* remainder at 24 bits doubled 29 times (2^29 % 10000 = 912); it is never
\* a tie
DoubleError(b) ==
    IF b = 0 THEN [e |-> 0, k |-> 0]
    ELSE LET mag == IF b < 0 THEN -b ELSE b
             s == FloatScale(mag \div 10000, mag % 10000, 0)
             r == (s.r * 912) % 10000
             e == IF r > 5000 THEN 10000 - r ELSE -r
         IN  [e |-> IF b < 0 THEN -e ELSE e, k |-> s.k + 29]

\* the doubles of the radii and gammas used here, computed once
DoubleErrorOf == [b \in Radii \cup NearRadii \cup Gammas \cup NewGammas |-> DoubleError(b)]

\* the error of the double of a parameter
OperandError(b) ==
    IF b \in DOMAIN DoubleErrorOf THEN DoubleErrorOf[b] ELSE DoubleError(b)

\* 1.e-6f is the float next to 1e-6, smaller by 2.5248e-15: a squared
\* difference that the cast leaves below 1e-6 still exceeds 1.e-6f if the
\* error of the cast is under 1.2624e-12, i.e. |e| < 1.69434 * 2^(k - 27)
WithinSingleSlack(err) ==
    LET mag == IF err.e < 0 THEN -err.e ELSE err.e
    IN  /\ err.k >= 27
        /\ mag * 100000 < 169434 * 2^(err.k - 27)

\* a difference of 1e-3 + t squares, in double arithmetic, to more than the
\* double 1.e-6 if t > 3.03136e-20 (below that the square rounds back to
\* 1.e-6), i.e. |e| * 2^(64 - k) > 5591.875 for t = |e| * 1e-4 * 2^-k
BeyondDoubleSlack(err) ==
    LET mag == IF err.e < 0 THEN -err.e ELSE err.e
        j == err.k - 54
    IN  IF j > 10 THEN FALSE
        ELSE IF j < -6 THEN mag > 0
        ELSE mag * 2^(10 - j) > 5591

\* variant: the tolerance is the double 1.e-6 at every test
SqDiffExceeds_DoubleTolerance(a, b, single) ==
    LET d == a - b
        err == CastError(a)
    IN  IF d * d # 100 THEN d * d > 100
        ELSE IF err.e = 0 THEN FALSE
        ELSE (d > 0 /\ err.e > 0) \/ (d < 0 /\ err.e < 0)

\* variant: the stored value is compared as given, without the cast
SqDiffExceeds_NoCast(a, b, single) == (a - b) * (a - b) > 100

\* pow(a - b, 2) > tol, where a is a value held as a float, b a double and
\* tol the literal 1.e-6f (single) or 1.e-6.  Away from the tolerance the
\* integers decide; at a difference of exactly 1e-3 the error of the cast
\* of a does: the test holds if the cast moved a away from b.  Where the
\* cast is exact the double of b decides against the double tolerance: the
\* test holds if b lies farther from a than 1e-3 by more than the rounding
\* of the square absorbs
SqDiffExceeds(a, b, single) ==
    LET d == a - b
        err == CastError(a)
        derr == OperandError(b)
    IN  IF d * d # 100 THEN d * d > 100
        ELSE IF err.e = 0
            THEN \/ single
                 \/ /\ (d > 0 /\ derr.e < 0) \/ (d < 0 /\ derr.e > 0)
                    /\ BeyondDoubleSlack(derr)
        ELSE IF (d > 0 /\ err.e > 0) \/ (d < 0 /\ err.e < 0) THEN TRUE
        ELSE single /\ WithinSingleSlack(err)

\* variant: a hydrogen keeps the gamma of the force
GammaOverOffset_HydrogenKeepsGamma(p, offset) == p.gamma \div offset

\* ishydrogen ? 0 : gamma / roffset
GammaOverOffset(p, offset) ==
    IF p.ishydrogen THEN 0 ELSE p.gamma \div offset

HFlag(p) == IF p.ishydrogen THEN 1 ELSE 0

----------------------------------------------------------------------------
(* CudaOverlapTree *)

\* CudaOverlapTree::CudaOverlapTree
NewOverlapTree ==
    [ has_saved_noverlaps   |-> FALSE,
      saved_noverlaps       |-> << >>,
      tree_size_boost       |-> 2,
      temp_buffer_size      |-> -1,
      hasExceededTempBuffer |-> FALSE,
      num_sections          |-> 0,
      total_tree_size       |-> 0,
      total_atoms_in_tree   |-> 0,
      tree_size             |-> << >>,
      padded_tree_size      |-> << >>,
      tree_pointer          |-> << >>,
      natoms_in_tree        |-> << >>,
      first_atom            |-> << >>,
      atom_tree_pointer     |-> << >> ]

\* sum of f[0..k-1]
RECURSIVE PrefixSum(_, _)
PrefixSum(f, k) == IF k <= 0 THEN 0 ELSE f[k - 1] + PrefixSum(f, k - 1)

RECURSIVE MaxUpTo(_, _)
MaxUpTo(f, k) ==
    IF k <= 0 THEN 0
    ELSE LET m == MaxUpTo(f, k - 1) IN IF f[k - 1] > m THEN f[k - 1] ELSE m

\* variant: the 1-body overlap is not counted
NoverlapsBudget_NoRoot(saved, current) ==
    IF saved > current THEN saved ELSE current

\* variant: the saved count is not looked at
NoverlapsBudget_CurrentOnly(saved, current) == current + 1

\* the per-atom budget: the larger of the saved count and the current one
\* plus the 1-body overlap
NoverlapsBudget(saved, current) ==
    IF saved > current THEN saved ELSE current + 1

\* the target number of overlaps per tree section
OverlapsPerSection(n_overlaps_total, max_n_overlaps, num_sections) ==
    LET q == IF num_sections > 1
             THEN n_overlaps_total \div (num_sections - 1)
             ELSE n_overlaps_total
    IN  IF max_n_overlaps > q THEN max_n_overlaps ELSE q

\* variant: the section size is padded but not boosted
PaddedSectionSize_NoBoost(raw, boost, pad_modulo) ==
    LET tsize == IF raw < 1 THEN 1 ELSE raw
    IN  pad_modulo * ((tsize + pad_modulo - 1) \div pad_modulo)

\* boost and pad a raw section size
PaddedSectionSize(raw, boost, pad_modulo) ==
    LET tsize == (IF raw < 1 THEN 1 ELSE raw) * boost
    IN  pad_modulo * ((tsize + pad_modulo - 1) \div pad_modulo)

\* the saved per-atom counts init_tree_size starts from
SavedNoverlaps(t, num_atoms) ==
    IF ~t.has_saved_noverlaps THEN [i \in 0..(num_atoms - 1) |-> 0]
    ELSE t.saved_noverlaps

\* the per-atom budgets of a call of init_tree_size
TreeBudgets(saved, num_atoms, noverlaps_current) ==
    [i \in 0..(num_atoms - 1) |->
        NoverlapsBudget(saved[i], noverlaps_current[i])]

\* the divisor of the section assignment
SectionDivisor(noverlaps, num_atoms, num_compute_units) ==
    OverlapsPerSection(PrefixSum(noverlaps, num_atoms),
                       MaxUpTo(noverlaps, num_atoms), num_compute_units)

\* the section index computed for every atom
ComputeUnitOfAtom(noverlaps, num_atoms, num_compute_units) ==
    LET n_overlaps_per_section ==
            SectionDivisor(noverlaps, num_atoms, num_compute_units)
    IN  [i \in 0..(num_atoms - 1) |->
            PrefixSum(noverlaps, i) \div n_overlaps_per_section]

\* every section index is an index of the per-section vectors
SectionsInRange(noverlaps, num_atoms, num_compute_units) ==
    LET compute_unit_of_atom ==
            ComputeUnitOfAtom(noverlaps, num_atoms, num_compute_units)
    IN  \A i \in 0..(num_atoms - 1) :
            compute_unit_of_atom[i] \in 0..(num_compute_units - 1)

\* variant: the offset is advanced before it is stored
TreePointer_OffsetAdvancedFirst(section_size, s) == PrefixSum(section_size, s + 1)

\* the offset of section s in the node array
TreePointer(section_size, s) == PrefixSum(section_size, s)

\* CudaOverlapTree::init_tree_size.  Where a section index is past the end
\* of the per-section vectors this is the outcome in which the stray writes
\* land outside the vectors and the call runs to its end.
init_tree_size(t, num_atoms, padded_num_atoms, num_compute_units, pad_modulo, noverlaps_current) ==
    LET atoms == 0..(num_atoms - 1)
        sections == 0..(num_compute_units - 1)
        noverlaps == TreeBudgets(SavedNoverlaps(t, num_atoms), num_atoms,
                                 noverlaps_current)
        compute_unit_of_atom ==
            ComputeUnitOfAtom(noverlaps, num_atoms, num_compute_units)
        natoms == [s \in sections |->
                     Cardinality({i \in atoms : compute_unit_of_atom[i] = s})]
        raw == [s \in sections |->
                  PrefixSum([i \in atoms |->
                               IF compute_unit_of_atom[i] = s
                               THEN noverlaps[i] ELSE 0], num_atoms)]
        section_size == [s \in sections |->
                           PaddedSectionSize(raw[s], t.tree_size_boost, pad_modulo)]
        pointer == [s \in sections |-> TreePointer(section_size, s)]
        first == [s \in sections |-> PrefixSum(natoms, s)]
        assigned == PrefixSum(natoms, num_compute_units)
        owner(a) == CHOOSE s \in sections :
                        first[s] <= a /\ a < first[s] + natoms[s]
    IN  [t EXCEPT
            !.has_saved_noverlaps = TRUE,
            !.saved_noverlaps = noverlaps,
            !.num_sections = num_compute_units,
            !.total_atoms_in_tree = num_atoms,
            !.natoms_in_tree = natoms,
            !.tree_pointer = pointer,
            !.tree_size = [s \in sections |-> 0],
            !.padded_tree_size = section_size,
            !.first_atom = first,
            !.atom_tree_pointer =
                [a \in 0..(padded_num_atoms - 1) |->
                    IF a < assigned
                    THEN pointer[owner(a)] + (a - first[owner(a)])
                    ELSE 0],
            !.total_tree_size = PrefixSum(section_size, num_compute_units)]

\* variant: the scratch size, once set, is kept
ResizedTempBufferSize_NeverDoubled(size, exceeded, ov_work_group_size, num_sections) ==
    IF size <= 0 THEN ov_work_group_size * num_sections * 64 ELSE size

\* the scratch size set by resize_tree_buffers
ResizedTempBufferSize(size, exceeded, ov_work_group_size, num_sections) ==
    LET first == IF size <= 0 THEN ov_work_group_size * num_sections * 64
                 ELSE size
    IN  IF exceeded THEN 2 * first ELSE first

\* CudaOverlapTree::resize_tree_buffers
resize_tree_buffers(t, ov_work_group_size) ==
    [t EXCEPT
        !.temp_buffer_size =
            ResizedTempBufferSize(t.temp_buffer_size, t.hasExceededTempBuffer,
                                  ov_work_group_size, t.num_sections),
        !.hasExceededTempBuffer = FALSE]

----------------------------------------------------------------------------
(* initialize *)

\* the state of the parameter loop before its first iteration; roffset has
\* been assigned at the head of initialize
ParamLoopStart(n) ==
    [ roffset          |-> GKCAV_RADIUS_INCREMENT,
      radiusVector1    |-> ZeroVector(n),
      radiusVector2    |-> ZeroVector(n),
      gammaVector1     |-> ZeroVector(n),
      gammaVector2     |-> ZeroVector(n),
      ishydrogenVector |-> ZeroVector(n),
      common_gamma     |-> -1,
      threw            |-> FALSE,
      what             |-> "" ]

\* the branch taken by the common-gamma test for one particle
CommonGammaTest(cg, p) ==
    IF cg < 0 /\ ~p.ishydrogen THEN "first"
    ELSE IF ~p.ishydrogen /\ SqDiffExceeds(cg, p.gamma, TRUE) THEN "throw"
    ELSE "pass"

\* one iteration of the parameter loop of initialize
initializeAtom(ps, p, i) ==
    LET g == GammaOverOffset(p, ps.roffset)
        w == [ps EXCEPT !.radiusVector1[i] = p.radius + ps.roffset,
                        !.radiusVector2[i] = p.radius,
                        !.ishydrogenVector[i] = HFlag(p),
                        !.gammaVector1[i] = g,
                        !.gammaVector2[i] = -g]
        t == CommonGammaTest(ps.common_gamma, p)
    IN  IF t = "first" THEN [w EXCEPT !.common_gamma = p.gamma]
        ELSE IF t = "throw"
             THEN [w EXCEPT !.threw = TRUE, !.what = "multiple gamma values"]
             ELSE w

RECURSIVE initializeLoop(_, _, _, _)
initializeLoop(ps, force, i, n) ==
    IF i >= n \/ ps.threw THEN ps
    ELSE initializeLoop(initializeAtom(ps, getParticleParameters(force, i), i),
                        force, i + 1, n)

\* the parameter state initialize leaves behind for a system of n atoms
initializeOutcome(n, force) == initializeLoop(ParamLoopStart(n), force, 0, n)

\* the allocations of initialize: the five parameter arrays ahead of the
\* parameter loop, the tree object, the event and the pinned page after it
initializeAllocations(held, threw) ==
    IF threw THEN held \cup {"paramArrays"}
    ELSE held \cup {"paramArrays", "gtree", "downloadPanicButtonEvent",
                    "pinnedPanicButtonMemory"}

\* initialize past the test on the number of contexts
initializeAccepted(force) ==
    /\ LET out == initializeOutcome(numParticles, force)
       IN  /\ roffset' = out.roffset
           /\ radiusVector1' = out.radiusVector1
           /\ radiusVector2' = out.radiusVector2
           /\ gammaVector1' = out.gammaVector1
           /\ gammaVector2' = out.gammaVector2
           /\ ishydrogenVector' = out.ishydrogenVector
           /\ common_gamma' = out.common_gamma
           /\ gammaParam1' = IF out.threw THEN "allocated" ELSE out.gammaVector1
           /\ gammaParam2' = IF out.threw THEN "allocated" ELSE out.gammaVector2
           /\ kstate' = IF out.threw THEN "initFailed" ELSE "initialized"
           /\ gvol_force' = IF out.threw THEN gvol_force ELSE force
           /\ gtree' = IF out.threw THEN gtree ELSE NewOverlapTree
           /\ live' = initializeAllocations(live, out.threw)
           /\ call' = [op |-> "initialize", threw |-> out.threw,
                       what |-> out.what, ret |-> 0, energy |-> 0]
    /\ hasInitializedKernels' = FALSE
    /\ hasCreatedKernels' = FALSE
    /\ hostBuffers' = NoHostBufferUpdate
    /\ launches' = << >>
    /\ UNCHANGED <<devVars, streamVars, unsetUsed, numParticles, PanicButton, pinnedPanicButtonMemory,
                   positions, forcesValid, numContexts, leaked,
                   dangling, freedTwice, histVars>>

\* variant: the context count is not tested
MultipleContexts_Unchecked(n) == FALSE

\* the test on the number of contexts of the platform
MultipleContexts(n) == n > 1

\* the throw of initialize on a platform with several contexts: roffset
\* has been assigned by then, nothing else
initializeRejected ==
    /\ roffset' = GKCAV_RADIUS_INCREMENT
    /\ call' = [op |-> "initialize", threw |-> TRUE,
                what |-> "multiple contexts", ret |-> 0, energy |-> 0]
    /\ hostBuffers' = NoHostBufferUpdate
    /\ launches' = << >>
    /\ UNCHANGED <<devVars, streamVars, unsetUsed, kstate, numParticles,
                   gvol_force, radiusVector1, radiusVector2, gammaVector1,
                   gammaVector2, ishydrogenVector, common_gamma, gammaParam1,
                   gammaParam2, execVars, positions, numContexts, memVars,
                   histVars>>

\* initialize on a system without atoms returns before anything is created
initializeEmpty ==
    /\ roffset' = GKCAV_RADIUS_INCREMENT
    /\ kstate' = "initialized"
    /\ call' = [op |-> "initialize", threw |-> FALSE, what |-> "", ret |-> 0,
                energy |-> 0]
    /\ hostBuffers' = NoHostBufferUpdate
    /\ launches' = << >>
    /\ UNCHANGED <<devVars, streamVars, unsetUsed, numParticles, gvol_force,
                   radiusVector1, radiusVector2, gammaVector1, gammaVector2,
                   ishydrogenVector, common_gamma, gammaParam1, gammaParam2,
                   execVars, positions, numContexts, memVars, histVars>>

initialize(force) ==
    /\ kstate = "constructed"
    /\ hostAt = "idle"
    /\ getNumParticles(force) = numParticles
    /\ IF MultipleContexts(numContexts) THEN initializeRejected
       ELSE IF numParticles = 0 THEN initializeEmpty
       ELSE initializeAccepted(force)

----------------------------------------------------------------------------
(* copyParametersToContext *)

\* variant: the hydrogen flag is not compared
copyAtom_NoHydrogenCheck(ps, p, i) ==
    IF SqDiffExceeds(ps.radiusVector2[i], p.radius, FALSE)
    THEN [ps EXCEPT !.threw = TRUE, !.what = "changing atomic radii"]
    ELSE LET g == GammaOverOffset(p, ps.roffset)
         IN  [ps EXCEPT !.gammaVector1[i] = g, !.gammaVector2[i] = -g]

\* variant: the radius is not compared
copyAtom_NoRadiusCheck(ps, p, i) ==
    IF ps.ishydrogenVector[i] # HFlag(p)
    THEN [ps EXCEPT !.threw = TRUE, !.what = "changing heavy/hydrogen atoms"]
    ELSE LET g == GammaOverOffset(p, ps.roffset)
         IN  [ps EXCEPT !.gammaVector1[i] = g, !.gammaVector2[i] = -g]

\* one iteration of the update loop of copyParametersToContext
copyAtom(ps, p, i) ==
    IF SqDiffExceeds(ps.radiusVector2[i], p.radius, FALSE)
    THEN [ps EXCEPT !.threw = TRUE, !.what = "changing atomic radii"]
    ELSE IF ps.ishydrogenVector[i] # HFlag(p)
    THEN [ps EXCEPT !.threw = TRUE, !.what = "changing heavy/hydrogen atoms"]
    ELSE LET g == GammaOverOffset(p, ps.roffset)
         IN  [ps EXCEPT !.gammaVector1[i] = g, !.gammaVector2[i] = -g]

RECURSIVE copyLoop(_, _, _, _)
copyLoop(ps, force, i, n) ==
    IF i >= n \/ ps.threw THEN ps
    ELSE copyLoop(copyAtom(ps, getParticleParameters(force, i), i),
                  force, i + 1, n)

\* variant: the particle count is compared after the update loop
copyOutcome_LateCountCheck(ps, n, force) ==
    LET m == IF getNumParticles(force) < n THEN getNumParticles(force) ELSE n
        r == copyLoop(ps, force, 0, m)
    IN  IF getNumParticles(force) # n
        THEN [r EXCEPT !.threw = TRUE, !.what = "changing the number of atoms"]
        ELSE r

\* the parameter state copyParametersToContext leaves behind, from state ps
copyOutcome(ps, n, force) ==
    IF getNumParticles(force) # n
    THEN [ps EXCEPT !.threw = TRUE, !.what = "changing the number of atoms"]
    ELSE copyLoop(ps, force, 0, n)

\* the stored parameter state as a record
StoredParams ==
    [ roffset          |-> roffset,
      radiusVector1    |-> radiusVector1,
      radiusVector2    |-> radiusVector2,
      gammaVector1     |-> gammaVector1,
      gammaVector2     |-> gammaVector2,
      ishydrogenVector |-> ishydrogenVector,
      common_gamma     |-> common_gamma,
      threw            |-> FALSE,
      what             |-> "" ]

copyParametersToContext(force) ==
    /\ kstate = "initialized"
    /\ hostAt = "idle"
    /\ LET out == copyOutcome(StoredParams, numParticles, force)
       IN  /\ gammaVector1' = out.gammaVector1
           /\ gammaVector2' = out.gammaVector2
           /\ gammaParam1' = IF out.threw THEN gammaParam1 ELSE out.gammaVector1
           /\ gammaParam2' = IF out.threw THEN gammaParam2 ELSE out.gammaVector2
           /\ call' = [op |-> "copyParametersToContext", threw |-> out.threw,
                       what |-> out.what, ret |-> 0, energy |-> 0]
    /\ hostBuffers' = NoHostBufferUpdate
    /\ launches' = << >>
    /\ UNCHANGED <<devVars, streamVars, unsetUsed, kstate, numParticles,
                   gvol_force, radiusVector1, radiusVector2, ishydrogenVector,
                   common_gamma, roffset, execVars, positions,
                   numContexts, memVars, histVars>>

----------------------------------------------------------------------------
(* execute *)

\* the per-atom overlap counts returned by the sizing oracle (GaussVol::getstat)
OracleNoverlaps(pos, n) ==
    [i \in 0..(PaddedNumAtoms(n) - 1) |-> IF i < n THEN pos.nov[i] ELSE 0]

ZeroPanic == (0 :> 0) @@ (1 :> 0)

\* the tree store after executeInitKernels
executeInitKernels(t, pos, n) ==
    LET ov_work_group_size == ForceThreadBlockSize
        num_compute_units == NumForceThreadBlocks
        pad_modulo == ov_work_group_size
    IN  resize_tree_buffers(
            init_tree_size(t, n, PaddedNumAtoms(n), num_compute_units,
                           pad_modulo, OracleNoverlaps(pos, n)),
            ov_work_group_size)

\* the number of tree slots the atoms of section s need on the device
SectionDemand(t, pos, s) ==
    PrefixSum([a \in 0..(t.total_atoms_in_tree - 1) |->
                 IF t.first_atom[s] <= a /\ a < t.first_atom[s] + t.natoms_in_tree[s]
                 THEN pos.need[a] ELSE 0],
              t.total_atoms_in_tree)

TreeOverflow(t, pos) ==
    \E s \in 0..(t.num_sections - 1) :
        SectionDemand(t, pos, s) > t.padded_tree_size[s]

TempOverflow(t, pos) == pos.temp > t.temp_buffer_size

\* the device panic array after the construction kernels
ConstructionPanic(panic, t, pos) ==
    (0 :> (IF TreeOverflow(t, pos) \/ TempOverflow(t, pos) THEN 1 ELSE panic[0]))
        @@ (1 :> (IF TempOverflow(t, pos) THEN 1 ELSE panic[1]))

\* variant: the child counts are reduced ahead of the counting kernel
ConstructionLaunches_PrefixSumFirst ==
    << "resetTreeKernel", "resetBufferKernel", "InitOverlapTreeKernel_1body_1",
       "reduceovCountBufferKernel", "InitOverlapTreeCountKernel",
       "InitOverlapTreeKernel", "resetComputeOverlapTreeKernel",
       "ComputeOverlapTree_1passKernel" >>

ConstructionLaunches ==
    << "resetTreeKernel", "resetBufferKernel", "InitOverlapTreeKernel_1body_1",
       "InitOverlapTreeCountKernel", "reduceovCountBufferKernel",
       "InitOverlapTreeKernel", "resetComputeOverlapTreeKernel",
       "ComputeOverlapTree_1passKernel" >>

\* variant: the event is recorded ahead of the download
PanicHandshake_RecordBeforeDownload ==
    << "cuEventRecord", "PanicButton->download", "resetSelfVolumesKernel",
       "cuEventSynchronize" >>

\* variant: the host waits on the event only after the first reduction
PanicHandshake_NoWait ==
    << "PanicButton->download", "cuEventRecord", "resetSelfVolumesKernel" >>

PanicHandshake ==
    << "PanicButton->download", "cuEventRecord", "resetSelfVolumesKernel",
       "cuEventSynchronize" >>

FirstPassReduction ==
    << "computeSelfVolumesKernel", "reduceSelfVolumesKernel_buffer",
       "updateSelfVolumesForcesKernel",
       "ovAtomTreePointer->download", "ovVolEnergy->download" >>

\* the host operations that return only when the device has caught up: the
\* wait on the event and the downloads that do not pass blocking = false
Blocking(op) ==
    op \in {"cuEventSynchronize", "ovAtomTreePointer->download",
            "ovVolEnergy->download"}

\* variant: the second pass rebuilds the tree instead of rescanning it
SecondPass_Rebuild ==
    << "InitOverlapTreeKernel_1body_2", "resetTreeKernel",
       "InitOverlapTreeCountKernel", "reduceovCountBufferKernel",
       "InitOverlapTreeKernel", "resetComputeOverlapTreeKernel",
       "ComputeOverlapTree_1passKernel",
       "resetSelfVolumesKernel", "resetBufferKernel",
       "computeSelfVolumesKernel", "reduceSelfVolumesKernel_buffer",
       "updateSelfVolumesForcesKernel",
       "ovAtomTreePointer->download", "ovVolEnergy->download" >>

SecondPass ==
    << "InitOverlapTreeKernel_1body_2", "ResetRescanOverlapTreeKernel",
       "InitRescanOverlapTreeKernel", "RescanOverlapTreeKernel",
       "resetSelfVolumesKernel", "resetBufferKernel",
       "computeSelfVolumesKernel", "reduceSelfVolumesKernel_buffer",
       "updateSelfVolumesForcesKernel",
       "ovAtomTreePointer->download", "ovVolEnergy->download" >>

\* the test on the downloaded panic array
PanicDetected(pinned) == pinned[0] > 0

\* variant: the panic branch leaves the kernels marked initialized
PanicRecovery_KeepInitialized(t, pinned) ==
    [ hasInitializedKernels |-> TRUE,
      forcesValid |-> FALSE,
      gtree |-> IF pinned[1] > 0 THEN [t EXCEPT !.hasExceededTempBuffer = TRUE]
                ELSE t,
      launches |-> << >>,
      energy |-> 0,
      ret |-> 0 ]

\* variant: the panic array is tested only after the first reduction
PanicRecovery_AfterReduction(t, pinned) ==
    [ hasInitializedKernels |-> FALSE,
      forcesValid |-> FALSE,
      gtree |-> IF pinned[1] > 0 THEN [t EXCEPT !.hasExceededTempBuffer = TRUE]
                ELSE t,
      launches |-> FirstPassReduction,
      energy |-> 0,
      ret |-> 0 ]

\* variant: the panic branch does not mark the scratch buffers as exceeded
PanicRecovery_NoTempMark(t, pinned) ==
    [ hasInitializedKernels |-> FALSE,
      forcesValid |-> FALSE,
      gtree |-> t,
      launches |-> << >>,
      energy |-> 0,
      ret |-> 0 ]

\* the panic branch of executeGVolSA: what it writes, what it launches before
\* it returns, and what it returns
PanicRecovery(t, pinned) ==
    [ hasInitializedKernels |-> FALSE,
      forcesValid |-> FALSE,
      gtree |-> IF pinned[1] > 0 THEN [t EXCEPT !.hasExceededTempBuffer = TRUE]
                ELSE t,
      launches |-> << >>,
      energy |-> 0,
      ret |-> 0 ]

\* the value execute returns, given the value executeGVolSA returned
executeReturn(energy) == 0

\* the host's view of the allocations behind its pointers
Memory ==
    [live |-> live, leaked |-> leaked, dangling |-> dangling,
     freedTwice |-> freedTwice]

\* `delete X`: frees what X points to; the pointer keeps its value, and a
\* second delete through it frees the same allocation again
Delete(mem, r) ==
    IF r \in mem.live
    THEN [mem EXCEPT !.live = @ \ {r}, !.dangling = @ \cup {r}]
    ELSE IF r \in mem.dangling
         THEN [mem EXCEPT !.freedTwice = @ \cup {r}]
         ELSE mem

\* `X = CudaArray::create(...)`: the pointer holds a new allocation; what it
\* held before and was not freed is lost
Create(mem, r) ==
    [mem EXCEPT !.live = @ \cup {r},
                !.dangling = @ \ {r},
                !.leaked = IF r \in mem.live THEN @ \cup {r} ELSE @]

\* variant: the array is created only while the pointer is null
ReallocateGuarded_ConditionalCreate(mem, r) ==
    IF r \in mem.live \cup mem.dangling THEN Delete(mem, r)
    ELSE Create(mem, r)

\* `if (X) delete X; X = create`: a held allocation is freed, a new one held
ReallocateGuarded(mem, r) == Create(Delete(mem, r), r)

\* `if (!X) delete X; X = create`: a held allocation is never freed; the
\* pointer is overwritten
ReallocateUnguarded(mem, r) == Create(mem, r)

\* the allocations of resize_tree_buffers: "accumulationBuffers" stands for
\* AccumulationBuffer1_real/_long, AccumulationBuffer2_real/_long and
\* gradBuffers_long, "treeArrays" for the other 35 arrays of the tree store
resizeTreeAllocations(mem) ==
    ReallocateUnguarded(ReallocateGuarded(mem, "treeArrays"),
                        "accumulationBuffers")

\* the allocations of executeInitKernels: the tree store, the device panic
\* array and the atom-level arrays (selfVolume ... grad)
executeInitAllocations(mem) ==
    ReallocateGuarded(
        ReallocateGuarded(resizeTreeAllocations(mem), "PanicButton"),
        "atomArrays")

\* the spec's limit on consecutive panics; the counter stops there
PanicLimit == 3

\* variant: the kernels are set up by the first execute only
NeedsInit_FirstExecuteOnly(created, initialized) == ~created

\* variant: kernels that exist are set up again only if never set up
NeedsInit_BothMissing(created, initialized) == ~created /\ ~initialized

\* the test of execute ahead of executeInitKernels
NeedsInit(created, initialized) == ~created \/ ~initialized

\* the host outside every call
NoFrame == [includeForces |-> FALSE, includeEnergy |-> FALSE]
StreamIdle ==
    /\ hostAt = "idle"
    /\ stream = << >>
    /\ frame = NoFrame
    /\ ovVolEnergy = NULL

\* what the host puts on the stream: every operation but its own wait on the
\* event and the host code of executeInitKernels
OnStream(op) == op \notin {"cuEventSynchronize", "executeInitKernels"}
Queued(ops) == SelectSeq(ops, OnStream)
InStream(op) == \E j \in 1..Len(stream) : stream[j] = op

\* the process is alive inside a call, blocked in the given wait with the
\* stream drained
Resumes(at) ==
    /\ kstate \in {"initialized", "tree"}
    /\ hostAt = at
    /\ stream = << >>

\* the pinned page exists: initialize allocated it, or the tree store is
\* driven with one
PinnedPageSet ==
    "pinnedPanicButtonMemory" \in live \/ pinnedPanicButtonMemory # NULL

\* a list of host operations up to its last, and its last: the two passes
\* end with the blocking downloads of ovAtomTreePointer and of ovVolEnergy
UpToPointerDownload(ops) == SubSeq(ops, 1, Len(ops) - 1)
EnergyDownload(ops) == SubSeq(ops, Len(ops), Len(ops))

\* the host issues operations and blocks in the last of them
IssueAndWait(ops, at) ==
    /\ launches' = launches \o ops
    /\ stream' = stream \o Queued(ops)
    /\ hostAt' = at

\* the call in progress returns
Returns(ret, energy, completed) ==
    /\ hostAt' = "idle"
    /\ frame' = NoFrame
    /\ call' = [call EXCEPT !.ret = ret, !.energy = energy]
    /\ hostBuffers' = HostBufferUpdate(frame.includeForces, frame.includeEnergy,
                                       completed)
    /\ executed' = (executed \/ call.op = "execute")
    /\ consecutivePanics' =
           IF call.op # "execute" THEN consecutivePanics
           ELSE IF completed THEN 0
           ELSE IF consecutivePanics < PanicLimit
                THEN consecutivePanics + 1 ELSE PanicLimit

\* the host loop over the downloaded volume energies
RECURSIVE SumVolEnergies(_, _)
SumVolEnergies(energies, k) ==
    IF k <= 0 THEN 0
    ELSE energies[k - 1] + SumVolEnergies(energies, k - 1)

\* execute up to its first wait: with the kernels missing it enters
\* executeInitKernels and blocks in the download of the positions, otherwise
\* it enters executeGVolSA, queues the construction and the download of the
\* panic array and blocks on the event
execute(includeForces, includeEnergy) ==
    /\ kstate = "initialized"
    /\ hostAt = "idle"
    /\ frame' = [includeForces |-> includeForces, includeEnergy |-> includeEnergy]
    /\ call' = [op |-> "execute", threw |-> FALSE, what |-> "", ret |-> 0,
                energy |-> 0]
    /\ hostBuffers' = NoHostBufferUpdate
    /\ IF NeedsInit(hasCreatedKernels, hasInitializedKernels)
       THEN /\ launches' = << "executeInitKernels" >>
            /\ stream' = << "posq->download" >>
            /\ hostAt' = "posq"
       ELSE /\ launches' = ConstructionLaunches \o PanicHandshake
            /\ stream' = Queued(ConstructionLaunches \o PanicHandshake)
            /\ hostAt' = "event"
    /\ UNCHANGED <<devVars, ovVolEnergy, unsetUsed, kstate, numParticles,
                   gvol_force, paramVars, execVars, positions, numContexts,
                   memVars, histVars>>

\* the device runs a queued download that stands alone
streamRunsCopy ==
    /\ stream # << >>
    /\ \A j \in 1..Len(stream) :
           stream[j] \in {"posq->download", "ovVolEnergy->download"}
    /\ stream' = << >>
    /\ UNCHANGED <<devVars, hostAt, frame, ovVolEnergy, unsetUsed, kstate,
                   numParticles, gvol_force, paramVars, execVars, positions,
                   call, numContexts, memVars, hostBuffers, histVars, launches>>

\* executeInitKernels from the downloaded positions to its end, the two
\* assignments of execute that follow it, and executeGVolSA up to the wait
\* on the event
executeInitKernelsAfterPosq ==
    /\ Resumes("posq")
    /\ "gtree" \in live
    /\ gtree' = executeInitKernels(gtree, positions, numParticles)
    /\ LET mem == executeInitAllocations(Memory)
       IN  /\ live' = mem.live
           /\ leaked' = mem.leaked
           /\ dangling' = mem.dangling
           /\ freedTwice' = mem.freedTwice
    /\ PanicButton' = ZeroPanic
    /\ hasInitializedKernels' = TRUE
    /\ hasCreatedKernels' = TRUE
    /\ resizesSinceInit' = 1
    /\ IssueAndWait(ConstructionLaunches \o PanicHandshake, "event")
    /\ UNCHANGED <<devVars, frame, ovVolEnergy, unsetUsed, kstate, numParticles,
                   gvol_force, paramVars, pinnedPanicButtonMemory, forcesValid,
                   positions, call, numContexts, hostBuffers,
                   consecutivePanics, executed>>

\* the device has run the queued construction, leaving the given panic
\* array, and the download that follows it into the pinned page
ConstructionRuns(flags) ==
    /\ PanicButton' = flags
    /\ pinnedPanicButtonMemory' =
           IF InStream("PanicButton->download") /\ PinnedPageSet
           THEN flags ELSE pinnedPanicButtonMemory
    /\ stream' = << >>
    /\ UNCHANGED <<devVars, hostAt, frame, ovVolEnergy, unsetUsed, kstate,
                   numParticles, gvol_force, paramVars, hasInitializedKernels,
                   hasCreatedKernels, gtree, forcesValid, positions, call,
                   numContexts, memVars, hostBuffers, histVars, launches>>

\* the device runs the construction on the atoms as they are placed
streamRunsConstruction ==
    /\ InStream("ComputeOverlapTree_1passKernel")
    /\ ConstructionRuns(IF "gtree" \in live
                        THEN ConstructionPanic(PanicButton, gtree, positions)
                        ELSE PanicButton)

\* executeGVolSA from the wait on the event: the test on the pinned page,
\* then the panic branch or the first reduction up to the download of
\* ovAtomTreePointer
executeGVolSAAfterEvent ==
    /\ Resumes("event")
    /\ PinnedPageSet
    /\ IF PanicDetected(pinnedPanicButtonMemory)
       THEN LET out == PanicRecovery(gtree, pinnedPanicButtonMemory)
            IN  /\ hasInitializedKernels' = out.hasInitializedKernels
                /\ forcesValid' = out.forcesValid
                /\ gtree' = out.gtree
                /\ launches' = launches \o out.launches
                /\ Returns(out.ret, out.energy, FALSE)
                /\ UNCHANGED stream
       ELSE /\ IssueAndWait(UpToPointerDownload(FirstPassReduction), "pointer1")
            /\ UNCHANGED <<hasInitializedKernels, forcesValid, gtree, frame,
                           call, hostBuffers, executed, consecutivePanics>>
    /\ UNCHANGED <<devVars, ovVolEnergy, unsetUsed, kstate, numParticles,
                   gvol_force, paramVars, hasCreatedKernels, PanicButton,
                   pinnedPanicButtonMemory, positions, numContexts, memVars,
                   resizesSinceInit>>

\* the volume energies the device leaves in ovVolEnergy
VolEnergies(gammas, sv, n) == [a \in 0..(n - 1) |-> gammas[a] * sv[a]]

\* the device runs a queued reduction, given the self volumes it computes:
\* the first pass weighs them with gammaParam1, the second with gammaParam2
streamRunsReduction(sv) ==
    /\ InStream("updateSelfVolumesForcesKernel")
    /\ ovVolEnergy' =
           VolEnergies(IF InStream("InitOverlapTreeKernel_1body_2")
                       THEN gammaParam2 ELSE gammaParam1, sv, numParticles)
    /\ stream' = << >>
    /\ UNCHANGED <<devVars, hostAt, frame, unsetUsed, kstate, numParticles,
                   gvol_force, paramVars, execVars, positions, call,
                   numContexts, memVars, hostBuffers, histVars, launches>>

\* the host has the tree pointers of a pass and downloads the energies
executeGVolSAAfterPointer ==
    /\ Resumes("pointer1") \/ Resumes("pointer2")
    /\ IF hostAt = "pointer1"
       THEN IssueAndWait(EnergyDownload(FirstPassReduction), "energy1")
       ELSE IssueAndWait(EnergyDownload(SecondPass), "energy2")
    /\ UNCHANGED <<devVars, frame, ovVolEnergy, unsetUsed, kstate, numParticles,
                   gvol_force, paramVars, execVars, positions, call,
                   numContexts, memVars, hostBuffers, histVars>>

\* the host has the energies of the first pass, sums them and launches the
\* second pass up to the download of ovAtomTreePointer
executeGVolSAAfterEnergy1 ==
    /\ Resumes("energy1")
    /\ IssueAndWait(UpToPointerDownload(SecondPass), "pointer2")
    /\ UNCHANGED <<devVars, frame, ovVolEnergy, unsetUsed, kstate, numParticles,
                   gvol_force, paramVars, execVars, positions, call,
                   numContexts, memVars, hostBuffers, histVars>>

\* the host has the energies of the second pass, sums them, and
\* executeGVolSA and execute return
executeGVolSAAfterEnergy2 ==
    /\ Resumes("energy2")
    /\ Returns(IF call.op = "execute" THEN executeReturn(0) ELSE 0,
               SumVolEnergies(ovVolEnergy, numParticles), TRUE)
    /\ UNCHANGED <<devVars, stream, ovVolEnergy, unsetUsed, kstate,
                   numParticles, gvol_force, paramVars, execVars, positions,
                   numContexts, memVars, resizesSinceInit, launches>>

\* the host moves the atoms
setPositions(pos) ==
    /\ kstate = "initialized"
    /\ hostAt = "idle"
    /\ positions' = pos
    /\ call' = [op |-> "setPositions", threw |-> FALSE, what |-> "", ret |-> 0,
                energy |-> 0]
    /\ hostBuffers' = NoHostBufferUpdate
    /\ launches' = << >>
    /\ UNCHANGED <<devVars, streamVars, unsetUsed, kstate, numParticles, gvol_force, paramVars, execVars,
                   numContexts, memVars, histVars>>

\* ~CudaOverlapTree: `delete` on every array pointer of the store; the
\* pointers keep their values
TreeDestructorFrees(mem) ==
    Delete(Delete(mem, "treeArrays"), "accumulationBuffers")

\* ~CudaCalcGKCavitationForceKernel: `delete gtree`, which runs the
\* destructor of the tree store, then the pinned page and the event
KernelDestructor(mem) ==
    LET t == TreeDestructorFrees(mem)
    IN  [t EXCEPT !.live = @ \ {"gtree", "pinnedPanicButtonMemory",
                                "downloadPanicButtonEvent"}]

\* the host destroys an initialized kernel
destroy ==
    /\ kstate = "initialized"
    /\ hostAt = "idle"
    /\ "gtree" \in live
    /\ kstate' = "destroyed"
    /\ LET mem == KernelDestructor(Memory)
       IN  /\ live' = mem.live
           /\ leaked' = mem.leaked
           /\ dangling' = mem.dangling
           /\ freedTwice' = mem.freedTwice
    /\ call' = [op |-> "destroy", threw |-> FALSE, what |-> "", ret |-> 0,
                energy |-> 0]
    /\ hostBuffers' = NoHostBufferUpdate
    /\ launches' = << >>
    /\ UNCHANGED <<devVars, streamVars, unsetUsed, numParticles, gvol_force,
                   paramVars, execVars, positions, numContexts, histVars>>

\* the host destroys a kernel whose initialize never created the tree
\* store, the event and the pinned page.  The constructor does not set
\* gtree, so the value the destructor tests is indeterminate: it is null and
\* the delete is skipped, or it is not and the delete is given a pointer
\* that no new returned, which the process may or may not survive.
\* pinnedPanicButtonMemory was set to NULL and is skipped; the event handle
\* is passed to cuEventDestroy whether or not it was created.
destroyUncreated ==
    /\ kstate \in {"constructed", "initFailed", "initialized"}
    /\ hostAt = "idle"
    /\ "gtree" \notin live
    /\ \E gtreeIsNull \in BOOLEAN, dies \in BOOLEAN :
         /\ gtreeIsNull => ~dies
         /\ unsetUsed' = unsetUsed
                            \cup (IF gtreeIsNull THEN {} ELSE {"gtree"})
                            \cup (IF dies THEN {} ELSE {"downloadPanicButtonEvent"})
         /\ kstate' = IF dies THEN "crashed" ELSE "destroyed"
    /\ live' = KernelDestructor(Memory).live
    /\ call' = [op |-> "destroy", threw |-> FALSE, what |-> "", ret |-> 0,
                energy |-> 0]
    /\ hostBuffers' = NoHostBufferUpdate
    /\ launches' = << >>
    /\ UNCHANGED <<devVars, streamVars, numParticles, gvol_force, paramVars, execVars,
                   positions, numContexts, leaked, dangling, freedTwice,
                   histVars>>

\* execute on a kernel initialized for a system without atoms: the flags
\* are false, so execute enters executeInitKernels
executeUncreated ==
    /\ "gtree" \notin live
    /\ execute(TRUE, TRUE)

\* the process dies inside the call in progress, on the host's way to the
\* blocking point at
Dies(used, at) ==
    /\ kstate' = "crashed"
    /\ unsetUsed' = unsetUsed \cup used
    /\ executed' = TRUE
    /\ hostAt' = at
    /\ UNCHANGED <<call, hostBuffers, frame, consecutivePanics>>

\* the construction launches up to the first kernel that is handed
\* radiusParam1
UpToRadiusParam(ops) ==
    SubSeq(ops, 1, CHOOSE j \in 1..Len(ops) :
                       ops[j] = "InitOverlapTreeKernel_1body_1")

\* executeInitKernels past the download of the positions on a kernel whose
\* initialize returned before it set gtree, the parameter arrays, the event
\* and the pinned page.  It calls init_tree_size through gtree: the process
\* dies there, or the calls land in memory that is no tree store and
\* executeInitKernels runs to its end, creating the arrays of the tree store
\* (resize_tree_buffers), the panic array and the atom arrays, and execute
\* sets the two flags.  executeGVolSA then hands the kernels the parameter
\* arrays: the process dies at the first launch that reads one, or the
\* launches go through, whether or not they followed the unset pointer, and
\* the host records the event that was never created and waits on it.
executeInitKernelsUnset ==
    /\ Resumes("posq")
    /\ "gtree" \notin live
    /\ \E diesAt \in {"init_tree_size", "launch", "none"} :
         IF diesAt = "init_tree_size"
         THEN /\ Dies({"gtree"}, hostAt)
              /\ UNCHANGED <<launches, stream, execVars, memVars>>
         ELSE /\ hasInitializedKernels' = TRUE
              /\ hasCreatedKernels' = TRUE
              /\ PanicButton' = ZeroPanic
              /\ LET mem == executeInitAllocations(Memory)
                 IN  /\ live' = mem.live
                     /\ leaked' = mem.leaked
                     /\ dangling' = mem.dangling
                     /\ freedTwice' = mem.freedTwice
              /\ UNCHANGED <<gtree, pinnedPanicButtonMemory, forcesValid>>
              /\ IF diesAt = "launch"
                 THEN /\ Dies({"gtree", "paramArrays"}, "event")
                      /\ launches' = launches
                                        \o UpToRadiusParam(ConstructionLaunches)
                      /\ UNCHANGED stream
                 ELSE /\ IssueAndWait(ConstructionLaunches \o PanicHandshake,
                                      "event")
                      /\ \E followed \in BOOLEAN :
                             unsetUsed' = unsetUsed
                                 \cup {"gtree", "downloadPanicButtonEvent"}
                                 \cup (IF followed THEN {"paramArrays"} ELSE {})
                      /\ UNCHANGED <<kstate, call, hostBuffers, frame,
                                     executed, consecutivePanics>>
    /\ UNCHANGED <<devVars, ovVolEnergy, numParticles, gvol_force, paramVars,
                   positions, numContexts, resizesSinceInit>>

\* executeGVolSA past the wait on the event with the pinned page never
\* allocated: the test reads the panic entry through NULL
executeGVolSAReadsUnsetPage ==
    /\ Resumes("event")
    /\ ~PinnedPageSet
    /\ Dies({"pinnedPanicButtonMemory"}, hostAt)
    /\ UNCHANGED <<devVars, stream, ovVolEnergy, numParticles, gvol_force,
                   paramVars, execVars, positions, numContexts, memVars,
                   resizesSinceInit, launches>>

----------------------------------------------------------------------------
(* The tree store driven on its own *)

\* init_tree_size called on the tree store with a section count and the
\* counts of the oracle.  A section index past the end of the per-section
\* vectors is an out-of-bounds write: the process dies there, or the write
\* lands outside the vectors and the call runs to its end.
callInitTreeSize(num_compute_units, noverlaps_current) ==
    /\ kstate = "tree"
    /\ hostAt = "idle"
    /\ LET saved == SavedNoverlaps(gtree, numParticles)
           noverlaps == TreeBudgets(saved, numParticles, noverlaps_current)
           inRange == SectionsInRange(noverlaps, numParticles, num_compute_units)
       IN  \E dies \in (IF inRange THEN {FALSE} ELSE BOOLEAN) :
               /\ kstate' = IF dies THEN "crashed" ELSE "tree"
               /\ gtree' = IF dies THEN gtree
                           ELSE init_tree_size(gtree, numParticles,
                                               PaddedNumAtoms(numParticles),
                                               num_compute_units,
                                               ForceThreadBlockSize,
                                               noverlaps_current)
               /\ resizesSinceInit' = IF dies THEN resizesSinceInit ELSE 0
               /\ call' = [op |-> "init_tree_size", threw |-> FALSE,
                           what |-> IF inRange THEN ""
                                    ELSE "section index out of range",
                           ret |-> 0, energy |-> 0,
                           first |-> ~gtree.has_saved_noverlaps,
                           saved |-> saved,
                           current |-> noverlaps_current,
                           num_compute_units |-> num_compute_units]
    /\ hostBuffers' = NoHostBufferUpdate
    /\ launches' = << >>
    /\ UNCHANGED <<devVars, streamVars, unsetUsed, numParticles, gvol_force, paramVars, hasInitializedKernels,
                   hasCreatedKernels, PanicButton, pinnedPanicButtonMemory,
                   forcesValid, positions, numContexts, memVars,
                   consecutivePanics, executed>>

\* the number of resize_tree_buffers calls followed between two calls of
\* init_tree_size
MaxResizes == 2

\* resize_tree_buffers called on a sized tree store
callResizeTreeBuffers ==
    /\ kstate = "tree"
    /\ hostAt = "idle"
    /\ gtree.has_saved_noverlaps
    /\ resizesSinceInit < MaxResizes
    /\ gtree' = resize_tree_buffers(gtree, ForceThreadBlockSize)
    /\ LET mem == resizeTreeAllocations(Memory)
       IN  /\ live' = mem.live
           /\ leaked' = mem.leaked
           /\ dangling' = mem.dangling
           /\ freedTwice' = mem.freedTwice
    /\ resizesSinceInit' = resizesSinceInit + 1
    /\ call' = [op |-> "resize_tree_buffers", threw |-> FALSE, what |-> "",
                ret |-> 0, energy |-> 0]
    /\ hostBuffers' = NoHostBufferUpdate
    /\ launches' = << >>
    /\ UNCHANGED <<devVars, streamVars, unsetUsed, kstate, numParticles, gvol_force, paramVars,
                   hasInitializedKernels, hasCreatedKernels, PanicButton,
                   pinnedPanicButtonMemory, forcesValid, positions,
                   numContexts, consecutivePanics, executed>>

\* the contents of the device panic array: two ints, entry 0 the general
\* panic, entry 1 telling that a scratch buffer was exceeded
PanicArrays == [0..1 -> 0..1]

\* the self volumes and the largest scratch size of the steps driven here
UnitSelfVolumes(n) == [a \in 0..(n - 1) |-> 1]
MaxTempBufferSize == MaxTempFactor * ForceThreadBlockSize * MaxTreeSections * 64

\* executeGVolSA called on a sized tree store, up to the wait on the event
callExecuteGVolSA ==
    /\ kstate = "tree"
    /\ hostAt = "idle"
    /\ resizesSinceInit >= 1
    /\ frame' = [includeForces |-> TRUE, includeEnergy |-> TRUE]
    /\ call' = [op |-> "executeGVolSA", threw |-> FALSE, what |-> "",
                ret |-> 0, energy |-> 0]
    /\ hostBuffers' = NoHostBufferUpdate
    /\ launches' = ConstructionLaunches \o PanicHandshake
    /\ stream' = Queued(ConstructionLaunches \o PanicHandshake)
    /\ hostAt' = "event"
    /\ UNCHANGED <<devVars, ovVolEnergy, unsetUsed, kstate, numParticles,
                   gvol_force, paramVars, execVars, positions, numContexts,
                   memVars, histVars>>

\* the device runs the construction and hands back the given panic array,
\* whichever the kernels left there
streamRunsConstructionWith(flags) ==
    /\ InStream("ComputeOverlapTree_1passKernel")
    /\ flags[1] > 0 => gtree.temp_buffer_size <= MaxTempBufferSize
    /\ ConstructionRuns(flags)

\* the tree store is destroyed
destroyTree ==
    /\ kstate = "tree"
    /\ hostAt = "idle"
    /\ kstate' = "treeDestroyed"
    /\ LET mem == TreeDestructorFrees(Memory)
       IN  /\ live' = mem.live \ {"gtree"}
           /\ leaked' = mem.leaked
           /\ dangling' = mem.dangling
           /\ freedTwice' = mem.freedTwice
    /\ call' = [op |-> "~CudaOverlapTree", threw |-> FALSE, what |-> "",
                ret |-> 0, energy |-> 0]
    /\ hostBuffers' = NoHostBufferUpdate
    /\ launches' = << >>
    /\ UNCHANGED <<devVars, streamVars, unsetUsed, numParticles, gvol_force, paramVars, execVars, positions,
                   numContexts, histVars>>

----------------------------------------------------------------------------
(* The device-side tree of one section: a root atom and its neighbours.   *)
(* Volumes are integers in units of a quarter of VolMinB - VolMinA, and    *)
(* switching values are integers in units of 1 / SwitchUnit, so that the   *)
(* polynomial of the switching function is computed without rounding.      *)

DevChildren == 3

VolMinA == 2
VolMinB == 6
SMALL_VOLUME == 1
SwitchUnit == (VolMinB - VolMinA)^5
MAX_ORDER == 3

\* overlap volumes of a pair: at the inclusion threshold, in the switching
\* range (light, heavy), at the upper threshold and above it
DevVolumes == {2, 3, 4, 6, 7}
\* units by which the overlap of a node with a further atom is smaller than
\* the smaller of the node's volume and the atom's overlap with the root
TripleLoss == 1
\* units by which the overlap volumes are smaller with the nominal radii
DevShrinks == 0..2
RootVolume == 8

DevSlots == 1 + DevChildren + (DevChildren * (DevChildren - 1)) \div 2
Slots == 0..(DevSlots - 1)

EmptyNode ==
    [ovLevel |-> 0, ovVolume |-> 0, ovVsp |-> 0, ovVSfp |-> 0,
     ovLastAtom |-> -1, ovRootIndex |-> -1, ovChildrenStartIndex |-> -1,
     ovChildrenCount |-> 0, ovChildrenCountTop |-> 0,
     ovChildrenCountBottom |-> 0, ovG |-> 0, ovDV1 |-> 0,
     ovProcessedFlag |-> 0, ovOKtoProcessFlag |-> 0]

IdleLane == [pc |-> "idle", endslot |-> -1]

\* no step is under way on the device
DeviceIdle ==
    /\ ov = << >>
    /\ devPhase = "idle"
    /\ pairVolume = << >>
    /\ lanes = << >>
    /\ init2Writes = << >>
    /\ treeTop = 0

\* COMPUTE_INTERACTION_COUNT: the pair is counted
CountAdmits(gvol) == gvol > VolMinA
\* COMPUTE_INTERACTION_2COUNT
Count2Admits(gvol) == gvol > VolMinA
\* variant: the store also takes a volume at the threshold
Store1Admits_AtThreshold(gvol) == gvol >= VolMinA
\* COMPUTE_INTERACTION_STORE1: the pair is stored
Store1Admits(gvol) == gvol > VolMinA
\* COMPUTE_INTERACTION_STORE2
Store2Admits(gvol) == gvol > VolMinA

\* the switching function and its derivative, as the macros compute them
Switching(gvol) ==
    IF gvol > VolMinB
    THEN [s |-> SwitchUnit, sp |-> 0]
    ELSE LET D == VolMinB - VolMinA
             n == gvol - VolMinA
         IN  [s |-> n * n * n * (10 * D * D - 15 * n * D + 6 * n * n),
              sp |-> 30 * n * n * (D * D - 2 * n * D + n * n)]

\* s*gvol > SMALL_VOLUME
Heavy(s, gvol) == s * gvol > SMALL_VOLUME * SwitchUnit

\* the slot taken from the low end of the parent's range
TopSlot(children_start, children_count) == children_start + children_count
\* variant: the high end starts one past the range
BottomSlot_NoMinusOne(children_start, count, children_count) == children_start + count - children_count
\* the slot taken from the high end of the parent's range
BottomSlot(children_start, count, children_count) == children_start + count - children_count - 1

\* the fields COMPUTE_INTERACTION_STORE1 writes at endslot
Store1(node, gvol, child_atom, parent_slot) ==
    [node EXCEPT !.ovLevel = 2,
                 !.ovVolume = gvol,
                 !.ovVsp = Switching(gvol).s,
                 !.ovVSfp = Switching(gvol).sp * gvol + Switching(gvol).s,
                 !.ovLastAtom = child_atom,
                 !.ovRootIndex = parent_slot,
                 !.ovChildrenStartIndex = -1,
                 !.ovChildrenCount = 0,
                 !.ovG = 1,
                 !.ovDV1 = 1]

\* the fields COMPUTE_INTERACTION_STORE2 writes at endslot
Store2(node, gvol, atom2, slot, level) ==
    [node EXCEPT !.ovLevel = level + 1,
                 !.ovVolume = gvol,
                 !.ovVsp = Switching(gvol).s,
                 !.ovVSfp = Switching(gvol).sp * gvol + Switching(gvol).s,
                 !.ovLastAtom = atom2,
                 !.ovRootIndex = slot,
                 !.ovChildrenStartIndex = -1,
                 !.ovChildrenCount = 0,
                 !.ovG = 1,
                 !.ovDV1 = 1,
                 !.ovProcessedFlag = 0,
                 !.ovOKtoProcessFlag = 1]

\* variant: a node whose recomputed volume is below the threshold is dropped
StoreRescan_DropsBelowThreshold(node, gvol) ==
    IF gvol > VolMinA
    THEN [node EXCEPT !.ovVolume = gvol,
                      !.ovVsp = Switching(gvol).s,
                      !.ovVSfp = Switching(gvol).sp * gvol + Switching(gvol).s,
                      !.ovG = 2,
                      !.ovDV1 = 2]
    ELSE EmptyNode

\* the fields COMPUTE_INTERACTION_RESCAN writes at slot
StoreRescan(node, gvol) ==
    [node EXCEPT !.ovVolume = gvol,
                 !.ovVsp = Switching(gvol).s,
                 !.ovVSfp = Switching(gvol).sp * gvol + Switching(gvol).s,
                 !.ovG = 2,
                 !.ovDV1 = 2]

\* the step ends; the next one starts from the cleared section
resetTree ==
    /\ devPhase = "rescanned"
    /\ ov' = << >>
    /\ devPhase' = "idle"
    /\ pairVolume' = << >>
    /\ lanes' = << >>
    /\ init2Writes' = << >>
    /\ treeTop' = 0
    /\ UNCHANGED hostVars

\* resetTree, resetBuffer, init1Body: the node fields of the section are
\* cleared and the root is written; the positions of the step fix the pair
\* volumes
init1Body ==
    /\ devPhase = "idle"
    /\ \E vols \in [1..DevChildren -> DevVolumes] : pairVolume' = vols
    /\ ov' = [slot \in Slots |->
                IF slot = 0
                THEN [EmptyNode EXCEPT !.ovLevel = 1,
                                       !.ovVolume = RootVolume,
                                       !.ovVsp = SwitchUnit,
                                       !.ovVSfp = SwitchUnit,
                                       !.ovLastAtom = 0,
                                       !.ovG = 1,
                                       !.ovDV1 = 1]
                ELSE EmptyNode]
    /\ lanes' = [j \in 1..DevChildren |-> IdleLane]
    /\ init2Writes' = [slot \in Slots |-> 0]
    /\ treeTop' = 1
    /\ devPhase' = "roots"
    /\ UNCHANGED hostVars

\* countChildren: one atomicAdd on the root's count for every counted pair
countChildren ==
    /\ devPhase = "roots"
    /\ ov' = [ov EXCEPT ![0].ovChildrenCount =
                 Cardinality({ j \in 1..DevChildren : CountAdmits(pairVolume[j]) })]
    /\ devPhase' = "counted"
    /\ UNCHANGED <<hostVars, pairVolume, lanes, init2Writes, treeTop>>

\* prefixSumChildStarts: the root's children are reserved after the roots
prefixSumChildStarts ==
    /\ devPhase = "counted"
    /\ ov' = [ov EXCEPT ![0].ovChildrenStartIndex = treeTop]
    /\ treeTop' = treeTop + ov[0].ovChildrenCount
    /\ lanes' = [j \in 1..DevChildren |-> [pc |-> "ready", endslot |-> -1]]
    /\ devPhase' = "reserved"
    /\ UNCHANGED <<hostVars, pairVolume, init2Writes>>

\* init2Body, the thread of neighbour j up to its atomicAdd: the pair is
\* dropped, or takes its slot from one end of the root's range
init2BodyAllocate(j) ==
    /\ devPhase = "reserved"
    /\ lanes[j].pc = "ready"
    /\ LET gvol == pairVolume[j]
           s == Switching(gvol).s
           parent_children_start == ov[0].ovChildrenStartIndex
       IN  IF ~Store1Admits(gvol)
           THEN /\ lanes' = [lanes EXCEPT ![j].pc = "done"]
                /\ UNCHANGED ov
           ELSE IF Heavy(s, gvol)
           THEN /\ ov' = [ov EXCEPT ![0].ovChildrenCountTop = @ + 1]
                /\ lanes' = [lanes EXCEPT ![j] =
                      [pc |-> "store",
                       endslot |-> TopSlot(parent_children_start,
                                           ov[0].ovChildrenCountTop)]]
           ELSE /\ ov' = [ov EXCEPT ![0].ovChildrenCountBottom = @ + 1]
                /\ lanes' = [lanes EXCEPT ![j] =
                      [pc |-> "store",
                       endslot |-> BottomSlot(parent_children_start,
                                              ov[0].ovChildrenCount,
                                              ov[0].ovChildrenCountBottom)]]
    /\ UNCHANGED <<hostVars, devPhase, pairVolume, init2Writes, treeTop>>

\* init2Body, the thread of neighbour j after its atomicAdd: the node fields
\* are written at endslot
init2BodyStore(j) ==
    /\ devPhase = "reserved"
    /\ lanes[j].pc = "store"
    /\ ov' = [ov EXCEPT ![lanes[j].endslot] = Store1(@, pairVolume[j], j, 0)]
    /\ init2Writes' = [init2Writes EXCEPT ![lanes[j].endslot] = @ + 1]
    /\ lanes' = [lanes EXCEPT ![j].pc = "done"]
    /\ UNCHANGED <<hostVars, devPhase, pairVolume, treeTop>>

\* every init2Body thread has finished
Init2BodyDone == devPhase = "reserved" /\ \A j \in 1..DevChildren : lanes[j].pc = "done"

\* resetCompute: the level-2 nodes are made eligible for expansion
resetCompute ==
    /\ Init2BodyDone
    /\ ov' = [slot \in Slots |->
                IF ov[slot].ovLevel = 2
                THEN [ov[slot] EXCEPT !.ovProcessedFlag = 0, !.ovOKtoProcessFlag = 1]
                ELSE ov[slot]]
    /\ devPhase' = "expanding"
    /\ UNCHANGED <<hostVars, pairVolume, lanes, init2Writes, treeTop>>

\* the thread that expands the node at slot stores its admitted children one
\* after the other, in the order of the candidate atoms
RECURSIVE Store2All(_, _, _, _)
Store2All(nodes, slot, atoms, vols) ==
    IF atoms = {}
    THEN nodes
    ELSE LET atom2 == CHOOSE a \in atoms : \A b \in atoms : a <= b
             gvol == vols[atom2]
             s == Switching(gvol).s
             parent == nodes[slot]
             endslot == IF Heavy(s, gvol)
                        THEN TopSlot(parent.ovChildrenStartIndex,
                                     parent.ovChildrenCountTop)
                        ELSE BottomSlot(parent.ovChildrenStartIndex,
                                        parent.ovChildrenCount,
                                        parent.ovChildrenCountBottom)
             counted == IF Heavy(s, gvol)
                        THEN [nodes EXCEPT ![slot].ovChildrenCountTop = @ + 1]
                        ELSE [nodes EXCEPT ![slot].ovChildrenCountBottom = @ + 1]
             stored == [counted EXCEPT ![endslot] =
                           Store2(@, gvol, atom2, slot, parent.ovLevel)]
         IN  IF Store2Admits(gvol)
             THEN Store2All(stored, slot, atoms \ {atom2}, vols)
             ELSE Store2All(nodes, slot, atoms \ {atom2}, vols)

\* the later siblings of the node at slot
CandidateAtoms(nodes, slot) ==
    { nodes[c].ovLastAtom : c \in { c \in Slots :
          /\ nodes[c].ovLevel = nodes[slot].ovLevel
          /\ nodes[c].ovRootIndex = nodes[slot].ovRootIndex
          /\ nodes[c].ovLastAtom > nodes[slot].ovLastAtom } }

\* computeOverlapTree1Pass, for one eligible node: its overlaps with its
\* later siblings are counted, a range is reserved for them at the end of
\* the section, and they are stored
expandNode(slot) ==
    /\ devPhase = "expanding"
    /\ ov[slot].ovLevel >= 2
    /\ ov[slot].ovLevel < MAX_ORDER
    /\ ov[slot].ovOKtoProcessFlag = 1
    /\ ov[slot].ovProcessedFlag = 0
    /\ LET atoms == CandidateAtoms(ov, slot)
           vols == [a \in atoms |->
                      (IF ov[slot].ovVolume < pairVolume[a]
                       THEN ov[slot].ovVolume ELSE pairVolume[a]) - TripleLoss]
       IN    LET ov_count == Cardinality({ a \in atoms : Count2Admits(vols[a]) })
                 reserved == [ov EXCEPT ![slot].ovChildrenCount = ov_count,
                                        ![slot].ovChildrenStartIndex =
                                            IF ov_count > 0 THEN treeTop ELSE -1,
                                        ![slot].ovProcessedFlag = 1]
             IN  /\ ov' = Store2All(reserved, slot, atoms, vols)
                 /\ treeTop' = treeTop + ov_count
    /\ UNCHANGED <<hostVars, devPhase, pairVolume, lanes, init2Writes>>

\* no node is left to expand
TreeBuilt ==
    /\ devPhase = "expanding"
    /\ \A slot \in Slots : ov[slot].ovLevel = 2 => ov[slot].ovProcessedFlag = 1

\* the second pass over the tree as built: the root is written again with
\* the nominal radius and every overlap recomputed in its slot
rescan ==
    /\ TreeBuilt
    /\ \E shrink \in DevShrinks :
         ov' = [slot \in Slots |->
                  IF ov[slot].ovLevel >= 2
                  THEN StoreRescan(ov[slot], ov[slot].ovVolume - shrink)
                  ELSE IF ov[slot].ovLevel = 1
                  THEN [ov[slot] EXCEPT !.ovVolume = RootVolume - shrink,
                                        !.ovG = 2, !.ovDV1 = 2]
                  ELSE ov[slot]]
    /\ devPhase' = "rescanned"
    /\ UNCHANGED <<hostVars, pairVolume, lanes, init2Writes, treeTop>>

----------------------------------------------------------------------------
(* Specifications *)

\* CudaCalcGKCavitationForceKernel::CudaCalcGKCavitationForceKernel
Constructed(n) ==
    /\ kstate = "constructed"
    /\ numParticles = n
    /\ gvol_force = NULL
    /\ radiusVector1 = << >> /\ radiusVector2 = << >>
    /\ gammaVector1 = << >> /\ gammaVector2 = << >>
    /\ ishydrogenVector = << >>
    /\ common_gamma = 0
    /\ roffset \in UnsetOffsets
    /\ gammaParam1 = NULL /\ gammaParam2 = NULL
    /\ hasInitializedKernels = FALSE
    /\ hasCreatedKernels = FALSE
    /\ gtree = NULL
    /\ PanicButton = NULL
    /\ pinnedPanicButtonMemory = NULL
    /\ forcesValid = TRUE
    /\ launches = << >>
    /\ call = [op |-> "construct", threw |-> FALSE, what |-> "", ret |-> 0,
               energy |-> 0]
    /\ numContexts \in ContextCounts
    /\ executed = FALSE
    /\ resizesSinceInit = 0
    /\ dangling = {}
    /\ freedTwice = {}
    /\ live = {}
    /\ leaked = {}
    /\ hostBuffers = NoHostBufferUpdate
    /\ consecutivePanics = 0
    /\ unsetUsed = {}
    /\ StreamIdle
    /\ DeviceIdle

NoPositions == [nov |-> << >>, need |-> << >>, temp |-> 0]

\* what one atom's surroundings amount to: the oracle's count for it and the
\* number of tree slots its overlaps take on the device; the first atom is
\* the one that may be crowded beyond what the oracle reports
BigNeed == 4 * NumAtoms + 2 * ForceThreadBlockSize + 1
ModestOverlaps == { [nov |-> 0, need |-> 1], [nov |-> 1, need |-> 4] }
AtomOverlaps == ModestOverlaps \cup { [nov |-> 0, need |-> BigNeed] }
InitialTempBufferSize == ForceThreadBlockSize * NumForceThreadBlocks * 64
TempNeeds == {0} \cup {k * InitialTempBufferSize + 1 : k \in 1..MaxTempFactor}
\* scratch demand is varied where the atoms behind the first are isolated
PositionsSet ==
    { p \in { [nov |-> [a \in 0..(NumAtoms - 1) |-> c[a].nov],
              need |-> [a \in 0..(NumAtoms - 1) |-> c[a].need],
              temp |-> tn] :
                c \in { d \in [0..(NumAtoms - 1) -> AtomOverlaps] :
                          \A a \in 1..(NumAtoms - 1) : d[a] \in ModestOverlaps },
                tn \in TempNeeds } :
        p.temp = 0 \/ \A a \in 1..(NumAtoms - 1) : p.need[a] = 1 }

\* initialize alone, on systems of 1..MaxAtomsInit atoms
InitI == /\ \E n \in 1..MaxAtomsInit : Constructed(n)
         /\ positions = NoPositions
NextI == \E f \in ForcesOfSize(numParticles, FarRadii, Gammas) : initialize(f)
SpecI == InitI /\ [][NextI]_vars

\* initialize followed by parameter updates
NewForces ==
    ForcesOfSize(NumAtoms, Radii, NewGammas)
        \cup ForcesOfSize(NumAtoms, NearRadii, {20})
        \cup ForcesOfSize(NumAtoms - 1, InitRadii, {20})
        \cup ForcesOfSize(NumAtoms + 1, InitRadii, {20})
InitP == /\ Constructed(NumAtoms)
         /\ positions = NoPositions
NextP == \/ \E f \in ForcesOfSize(numParticles, InitRadii, NewGammas) : initialize(f)
         \/ \E f \in NewForces : copyParametersToContext(f)
SpecP == InitP /\ [][NextP]_vars

\* initialize followed by steps of the simulation
InitX == /\ Constructed(NumAtoms)
         /\ positions \in PositionsSet
ExecForces ==
    { f \in ForcesOfSize(NumAtoms, InitRadii, {20}) :
        \A i \in 2..NumAtoms : ~f[i].ishydrogen }
DeviceSelfVolumes == { [a \in 0..(NumAtoms - 1) |-> v] : v \in SelfVolumes }
NextX == \/ \E f \in ExecForces : initialize(f)
         \/ \E pos \in PositionsSet : setPositions(pos)
         \/ destroy
         \/ \E includeForces, includeEnergy \in BOOLEAN :
                 execute(includeForces, includeEnergy)
         \/ streamRunsCopy
         \/ executeInitKernelsAfterPosq
         \/ streamRunsConstruction
         \/ executeGVolSAAfterEvent
         \/ \E sv \in DeviceSelfVolumes : streamRunsReduction(sv)
         \/ executeGVolSAAfterPointer
         \/ executeGVolSAAfterEnergy1
         \/ executeGVolSAAfterEnergy2
Spec == InitX /\ [][NextX]_vars

\* the tree store of a system of 1..MaxTreeAtoms atoms, driven call by call
\* with section counts 1..MaxTreeSections and oracle counts that are 0 or 1
\* for all atoms, 2 for the first atom only, or 1 for the last atom only
TreeGammas(n) == [a \in 0..(PaddedNumAtoms(n) - 1) |-> IF a < n THEN 4 ELSE 0]
TreeGammas1(n) == [a \in 0..(PaddedNumAtoms(n) - 1) |-> -TreeGammas(n)[a]]
TreeOracleCounts(n) ==
    { [a \in 0..(PaddedNumAtoms(n) - 1) |-> IF a \in A THEN 1 ELSE 0] :
        A \in { {}, 0..(n - 1), {n - 1} } }
      \cup { [a \in 0..(PaddedNumAtoms(n) - 1) |-> IF a = 0 THEN 2 ELSE 0] }
TreeConstructed(n) ==
    /\ kstate = "tree"
    /\ numParticles = n
    /\ gvol_force = NULL
    /\ radiusVector1 = << >> /\ radiusVector2 = << >>
    /\ gammaVector1 = TreeGammas1(n) /\ gammaVector2 = TreeGammas(n)
    /\ ishydrogenVector = << >>
    /\ common_gamma = 4
    /\ roffset = GKCAV_RADIUS_INCREMENT
    /\ gammaParam1 = TreeGammas1(n) /\ gammaParam2 = TreeGammas(n)
    /\ hasInitializedKernels = FALSE
    /\ hasCreatedKernels = FALSE
    /\ gtree = NewOverlapTree
    /\ PanicButton = ZeroPanic
    /\ pinnedPanicButtonMemory = ZeroPanic
    /\ forcesValid = TRUE
    /\ launches = << >>
    /\ call = [op |-> "CudaOverlapTree", threw |-> FALSE, what |-> "",
               ret |-> 0, energy |-> 0]
    /\ numContexts = 1
    /\ live = {"gtree"}
    /\ leaked = {}
    /\ hostBuffers = NoHostBufferUpdate
    /\ consecutivePanics = 0
    /\ executed = FALSE
    /\ resizesSinceInit = 0
    /\ dangling = {}
    /\ freedTwice = {}
    /\ positions = NoPositions
    /\ unsetUsed = {}
    /\ StreamIdle
    /\ DeviceIdle
InitT == \E n \in 1..MaxTreeAtoms : TreeConstructed(n)
NextT == \/ \E S \in 1..MaxTreeSections, nov \in TreeOracleCounts(numParticles) :
                 callInitTreeSize(S, nov)
         \/ callResizeTreeBuffers
         \/ destroyTree
SpecT == InitT /\ [][NextT]_vars

\* steps on a tree store that is rebuilt for isolated atoms, with any panic
\* array handed back by the device
IsolatedAtoms(n) == [a \in 0..(PaddedNumAtoms(n) - 1) |-> 0]
InitH == \E n \in 1..MaxTreeAtoms : TreeConstructed(n)
NextH == \/ callInitTreeSize(NumForceThreadBlocks, IsolatedAtoms(numParticles))
         \/ callResizeTreeBuffers
         \/ callExecuteGVolSA
         \/ \E flags \in PanicArrays : streamRunsConstructionWith(flags)
         \/ executeGVolSAAfterEvent
         \/ streamRunsReduction(UnitSelfVolumes(numParticles))
         \/ streamRunsCopy
         \/ executeGVolSAAfterPointer
         \/ executeGVolSAAfterEnergy1
         \/ executeGVolSAAfterEnergy2
SpecH == InitH /\ [][NextH]_vars

\* the kernel object through its lifecycle, also on a system without atoms
InitL == /\ \E n \in 0..NumAtoms : Constructed(n)
         /\ positions = NoPositions
NextL == \/ \E f \in ForcesOfSize(numParticles, FarRadii, Gammas) : initialize(f)
         \/ destroy
         \/ destroyUncreated
         \/ executeUncreated
         \/ streamRunsCopy
         \/ executeInitKernelsUnset
         \/ streamRunsConstruction
         \/ executeGVolSAReadsUnsetPage
SpecL == InitL /\ [][NextL]_vars

\* the construction pipeline of one section: a root atom and its neighbours
InitD == TreeConstructed(DevChildren + 1)
NextD == \/ resetTree
         \/ init1Body
         \/ countChildren
         \/ prefixSumChildStarts
         \/ \E j \in 1..DevChildren : init2BodyAllocate(j)
         \/ \E j \in 1..DevChildren : init2BodyStore(j)
         \/ resetCompute
         \/ \E slot \in Slots : expandNode(slot)
         \/ rescan
SpecD == InitD /\ [][NextD]_vars

----------------------------------------------------------------------------
(* Properties *)

\* the latest call was the given one and has returned
Returned(op) == hostAt = "idle" /\ call.op = op

\* the latest call was an execute whose downloaded panic entry 0 is set
Panicked == Returned("execute") /\ PanicDetected(pinnedPanicButtonMemory)

\* the latest call was an execute that went through both passes
Completed == Returned("execute") /\ ~PanicDetected(pinnedPanicButtonMemory)

Launched(k) == \E j \in 1..Len(launches) : launches[j] = k

\* what the next execute downloads into the pinned page if the positions stay
NextPinned ==
    LET needInit == ~hasCreatedKernels \/ ~hasInitializedKernels
        t == IF needInit THEN executeInitKernels(gtree, positions, numParticles)
             ELSE gtree
        panic == IF needInit THEN ZeroPanic ELSE PanicButton
    IN  ConstructionPanic(panic, t, positions)

\* C1: an execute that downloads panic entry 0 > 0 returns 0, marks the host
\* forces invalid and clears hasInitializedKernels, so that the next execute
\* runs executeInitKernels again.
C1_PanicRecovery ==
    Panicked => /\ call.ret = 0
                /\ ~forcesValid
                /\ ~hasInitializedKernels
                /\ (~hasCreatedKernels \/ ~hasInitializedKernels)

C1_Witness == Panicked /\ ~forcesValid /\ Launched("ComputeOverlapTree_1passKernel")

\* C2: a panicking execute launches no kernel that receives the host force
\* and energy buffers (updateSelfVolumesForces), in either pass.
C2_NoHostBufferUpdateOnPanic ==
    Panicked => ~Launched("updateSelfVolumesForcesKernel")

C2_Witness == Panicked /\ Launched("resetSelfVolumesKernel")

\* C3 (as claimed): execute returns the energy computed in the step on every
\* step that does not panic, and 0 on a panicking step.
C3_ReturnsEnergy ==
    /\ Completed => call.ret = call.energy
    /\ Panicked => call.ret = 0

\* C4 (as claimed): after an execute that panicked because the overlap demand
\* overflowed the tree (the scratch buffers did not), an execute on unchanged
\* positions runs on an enlarged tree and does not panic.
C4_SecondExecuteSucceeds ==
    (kstate = "initialized" /\ Panicked /\ pinnedPanicButtonMemory[1] = 0)
        => ~PanicDetected(NextPinned)

\* two values that differ by more than 1e-3 (squared difference above 1e-6)
BeyondTolerance(x, y) == (x - y) * (x - y) > 100

\* two gammas that differ by more than the tolerance of the code
GammasDiffer(g1, g2) == BeyondTolerance(g1, g2)

HeavyAtomsOf(force) == { i \in 1..Len(force) : ~force[i].ishydrogen }

Heterogeneous(force) ==
    \E i, j \in HeavyAtomsOf(force) : GammasDiffer(force[i].gamma, force[j].gamma)

\* C5 (as claimed): initialize throws whenever two non-hydrogen atoms carry
\* different gammas; a force it accepts is therefore never heterogeneous.
C5_RejectsHeterogeneousGamma ==
    kstate = "initialized" => ~Heterogeneous(gvol_force)

HeavyAtoms == { i \in 0..(numParticles - 1) : ishydrogenVector[i] = 0 }

\* C6 (as claimed): after a successful initialize and any number of
\* copyParametersToContext calls, all non-hydrogen atoms hold one gamma in
\* the stored gamma arrays.
C6_CommonGamma ==
    (kstate = "initialized" /\ ~call.threw) =>
        \A i, j \in HeavyAtoms :
            /\ gammaVector1[i] = gammaVector1[j]
            /\ gammaVector2[i] = gammaVector2[j]
            /\ gammaParam1[i] = gammaParam1[j]
            /\ gammaParam2[i] = gammaParam2[j]

SameCount(force) == getNumParticles(force) = numParticles

\* C7: copyParametersToContext throws when any atom's isHydrogen flag in the
\* new force differs from the flag recorded at initialize.
C7_HydrogenChangeRejected ==
    kstate = "initialized" =>
        \A f \in NewForces :
            (SameCount(f) /\ \E i \in 0..(numParticles - 1) :
                 HFlag(getParticleParameters(f, i)) # ishydrogenVector[i])
            => copyOutcome(StoredParams, numParticles, f).threw

C7_Witness ==
    /\ call.op = "copyParametersToContext"
    /\ call.threw
    /\ call.what = "changing heavy/hydrogen atoms"

\* C8 (as claimed): copyParametersToContext throws when any atom's radius in
\* the new force differs from the radius given at initialize.
C8_AnyRadiusChangeRejected ==
    kstate = "initialized" =>
        \A f \in NewForces :
            (SameCount(f) /\ \E i \in 0..(numParticles - 1) :
                 getParticleParameters(f, i).radius # radiusVector2[i])
            => copyOutcome(StoredParams, numParticles, f).threw

\* the radius test on atom i of force f: the new radius against the radius
\* as stored, the single-precision cast of the radius given at initialize
RadiusOffStored(f, i) ==
    SqDiffExceeds(radiusVector2[i], getParticleParameters(f, i).radius, FALSE)

\* the hydrogen flag of atom i of force f is the stored one
SameFlag(f, i) == ishydrogenVector[i] = HFlag(getParticleParameters(f, i))

\* C8 (amended): copyParametersToContext throws "changing atomic radii"
\* exactly when the first atom to fail a test has a new radius whose squared
\* difference from the stored single-precision radius exceeds 1e-6, and
\* accepts without an exception a force whose radii all lie within that
\* distance of the stored ones.  For radii given to 1e-4 nm a change of more
\* than 1e-3 nm is rejected, a smaller one accepted, and a change of exactly
\* 1e-3 nm rejected if the cast moved the stored radius away from the new
\* one.  The stored radii are never changed by the call.
C8_RadiusChangeBeyondToleranceRejected ==
    kstate = "initialized" =>
        \A f \in NewForces :
            LET out == copyOutcome(StoredParams, numParticles, f)
                atoms == 0..(numParticles - 1)
            IN  /\ SameCount(f) =>
                       /\ (\E i \in atoms : RadiusOffStored(f, i)) => out.threw
                       /\ (out.threw /\ out.what = "changing atomic radii")
                              <=> \E i \in atoms :
                                      /\ RadiusOffStored(f, i)
                                      /\ \A j \in 0..(i - 1) :
                                             /\ ~RadiusOffStored(f, j)
                                             /\ SameFlag(f, j)
                       /\ (\A i \in atoms : /\ ~RadiusOffStored(f, i)
                                             /\ SameFlag(f, i))
                              => ~out.threw
                       /\ \A i \in atoms :
                              LET d == radiusVector2[i]
                                           - getParticleParameters(f, i).radius
                                  e == CastError(radiusVector2[i]).e
                              IN  /\ d * d > 100 => RadiusOffStored(f, i)
                                  /\ d * d < 100 => ~RadiusOffStored(f, i)
                                  /\ (d * d = 100 /\ e # 0) =>
                                         (RadiusOffStored(f, i)
                                            <=> (d > 0) = (e > 0))
                /\ out.radiusVector2 = radiusVector2
                /\ out.radiusVector1 = radiusVector1

C8_Witness ==
    /\ call.op = "copyParametersToContext"
    /\ call.threw
    /\ call.what = "changing atomic radii"

\* C9: copyParametersToContext throws when the new force's particle count
\* differs from the count recorded at initialize, before any per-atom
\* parameter is read or changed.
C9_CountChangeRejected ==
    kstate = "initialized" =>
        \A f \in NewForces :
            ~SameCount(f) =>
                LET out == copyOutcome(StoredParams, numParticles, f)
                IN  /\ out.threw
                    /\ out.what = "changing the number of atoms"
                    /\ out.gammaVector1 = gammaVector1
                    /\ out.gammaVector2 = gammaVector2

C9_Witness ==
    /\ call.op = "copyParametersToContext"
    /\ call.threw
    /\ call.what = "changing the number of atoms"
    /\ gammaVector1 = gammaParam1

\* the new force differs from the force given at initialize only in gamma
DiffersOnlyInGamma(f) ==
    /\ SameCount(f)
    /\ \A i \in 1..Len(f) : /\ f[i].radius = gvol_force[i].radius
                            /\ f[i].ishydrogen = gvol_force[i].ishydrogen

\* the parameter state used by execute, host and device side
ParamsUsedByExecute(out) ==
    [ gammaVector1     |-> out.gammaVector1,
      gammaVector2     |-> out.gammaVector2,
      radiusVector1    |-> out.radiusVector1,
      radiusVector2    |-> out.radiusVector2,
      ishydrogenVector |-> out.ishydrogenVector,
      gammaParam1      |-> IF out.threw THEN "allocated" ELSE out.gammaVector1,
      gammaParam2      |-> IF out.threw THEN "allocated" ELSE out.gammaVector2 ]

\* C10 (as claimed): after initialize(force) and a successful
\* copyParametersToContext(force') with force' differing only in gamma, the
\* stored parameters equal those produced by initialize(force') alone.
C10_UpdateMatchesFreshInitialize ==
    kstate = "initialized" =>
        \A f \in NewForces :
            DiffersOnlyInGamma(f) =>
                LET out == copyOutcome(StoredParams, numParticles, f)
                    fresh == initializeOutcome(numParticles, f)
                IN  ~out.threw =>
                        /\ ~fresh.threw
                        /\ ParamsUsedByExecute(out) = ParamsUsedByExecute(fresh)

\* a call of initialize on a platform with more than one context has
\* thrown and holds nothing: no device array, event or pinned page
MultiContextThrow ==
    /\ call'.threw /\ call'.what = "multiple contexts"
    /\ live' = {} /\ leaked' = {}
    /\ kstate' = "constructed"
    /\ gammaParam1' = NULL /\ gammaParam2' = NULL
    /\ gtree' = NULL /\ pinnedPanicButtonMemory' = NULL
    /\ gammaVector1' = << >> /\ radiusVector1' = << >>

\* the fields of the kernel other than roffset are left as they were
OtherFieldsLeft ==
    UNCHANGED <<kstate, numParticles, gvol_force, radiusVector1, radiusVector2,
                gammaVector1, gammaVector2, ishydrogenVector, common_gamma,
                gammaParam1, gammaParam2, execVars, memVars>>

\* C11 (as claimed): on a platform with more than one context initialize
\* throws before allocating any device array, event or pinned memory, and
\* the kernel state is left as constructed.
C11_LeftAsConstructed ==
    [][(numContexts > 1 /\ call'.op = "initialize") =>
           MultiContextThrow /\ OtherFieldsLeft /\ roffset' = roffset]_vars

\* C11 (amended): on a platform with more than one context initialize
\* throws before allocating any device array, event or pinned memory; the
\* kernel state is left as constructed but for roffset, which has been
\* assigned the radius increment.
C11_MultiContextRejected ==
    [][(numContexts > 1 /\ call'.op = "initialize") =>
           /\ MultiContextThrow
           /\ OtherFieldsLeft
           /\ roffset' = GKCAV_RADIUS_INCREMENT]_vars

C11_Witness ==
    /\ numContexts > 1
    /\ call.op = "initialize"
    /\ call.threw
    /\ call.what = "multiple contexts"
    /\ kstate = "constructed"
    /\ live = {}
    /\ roffset = GKCAV_RADIUS_INCREMENT

\* C12 (as claimed): after the destructor every allocation made by
\* initialize, executeInitKernels and resize_tree_buffers has been freed.
C12_DestroyReleasesEverything ==
    kstate = "destroyed" => live = {} /\ leaked = {}

\* C13 (as claimed): forces reach the host force buffer only when
\* includeForces is true, energy the host energy buffer only when
\* includeEnergy is true.
C13_FlagsHonoured ==
    Returned("execute") =>
        /\ hostBuffers.forcesAdded => hostBuffers.includeForces
        /\ hostBuffers.energyAdded => hostBuffers.includeEnergy

\* C14 (as claimed): the third consecutive panicking execute surfaces as a
\* fatal error instead of returning silently.
C14_ThirdPanicIsFatal ==
    (Panicked /\ consecutivePanics >= PanicLimit) => call.threw

\* C15: after a successful initialize or copyParametersToContext the
\* second-pass gamma of every atom is the negation of its first-pass gamma,
\* on the host and on the device, and both are 0 for every hydrogen.
C15_GammaNegationAndHydrogenZero ==
    (kstate = "initialized" /\ ~call.threw) =>
        \A i \in 0..(numParticles - 1) :
            /\ gammaVector2[i] = -gammaVector1[i]
            /\ gammaParam2[i] = -gammaParam1[i]
            /\ ishydrogenVector[i] = 1 =>
                   /\ gammaVector1[i] = 0 /\ gammaVector2[i] = 0
                   /\ gammaParam1[i] = 0 /\ gammaParam2[i] = 0

C15_Witness ==
    /\ call.op = "initialize"
    /\ ~call.threw
    /\ \E i \in 0..(numParticles - 1) :
           /\ getParticleParameters(gvol_force, i).ishydrogen
           /\ getParticleParameters(gvol_force, i).gamma # 0
           /\ gammaVector1[i] = 0
    /\ \E j \in 0..(numParticles - 1) :
           gammaVector1[j] # 0 /\ gammaVector2[j] = -gammaVector1[j]

\* C16 (as claimed): a copyParametersToContext call that throws leaves the
\* host gamma vectors as they were before the call.
C16_FailedCopyLeavesGammas ==
    kstate = "initialized" =>
        \A f \in NewForces :
            LET out == copyOutcome(StoredParams, numParticles, f)
            IN  out.threw => /\ out.gammaVector1 = gammaVector1
                             /\ out.gammaVector2 = gammaVector2

\* the launches of executeGVolSA in the latest execute
StepLaunches ==
    IF launches # << >> /\ Head(launches) = "executeInitKernels"
    THEN Tail(launches) ELSE launches

Count(k, L) == Cardinality({ j \in 1..Len(L) : L[j] = k })

\* the position of the only launch of k in L
IndexOf(k, L) == CHOOSE j \in 1..Len(L) : L[j] = k

HostOperations ==
    {"PanicButton->download", "cuEventRecord", "cuEventSynchronize",
     "ovAtomTreePointer->download", "ovVolEnergy->download"}

IsKernel(op) == op \notin HostOperations

ReductionKernels ==
    {"resetSelfVolumesKernel", "computeSelfVolumesKernel",
     "reduceSelfVolumesKernel_buffer", "updateSelfVolumesForcesKernel"}

VolumeReductionKernels == ReductionKernels \ {"resetSelfVolumesKernel"}

\* the kernels launched by the construction alone: resetBufferKernel is
\* launched by the construction and again by the second pass
ConstructionOnlyKernels ==
    {"resetTreeKernel", "InitOverlapTreeKernel_1body_1",
     "InitOverlapTreeCountKernel", "reduceovCountBufferKernel",
     "InitOverlapTreeKernel", "resetComputeOverlapTreeKernel",
     "ComputeOverlapTree_1passKernel"}

\* the kernels of the eight construction phases
ConstructionKernels == ConstructionOnlyKernels \cup {"resetBufferKernel"}

\* the step starts with the eight construction phases in their order, and
\* every reduction phase comes after them
ConstructionFirst(L) ==
    /\ Len(L) >= 8
    /\ SubSeq(L, 1, 8) =
           << "resetTreeKernel", "resetBufferKernel",
              "InitOverlapTreeKernel_1body_1",
              "InitOverlapTreeCountKernel", "reduceovCountBufferKernel",
              "InitOverlapTreeKernel", "resetComputeOverlapTreeKernel",
              "ComputeOverlapTree_1passKernel" >>
    /\ \A j \in 1..Len(L) : L[j] \in ReductionKernels => j > 8

\* C17 (as claimed): every execute starts with resetTree, resetBuffer,
\* init1Body (enlarged radii), countChildren, the prefix sum of child starts,
\* init2Body, resetCompute and computeOverlapTree1Pass, in this order, ahead
\* of every reduction phase, and launches each of the eight exactly once.
C17_EachPhaseOnce ==
    Returned("execute") =>
        /\ ConstructionFirst(StepLaunches)
        /\ \A k \in ConstructionKernels : Count(k, StepLaunches) = 1

\* C17 (amended): every execute starts with the eight construction phases in
\* this order, ahead of every reduction phase, and launches seven of them
\* exactly once.  resetBuffer is launched once by the construction and, in a
\* step that does not panic, exactly once more: by the second pass, between
\* its resetSelfVolumes and its computeSelfVolumes.
C17_ConstructionOrder ==
    Returned("execute") =>
        LET L == StepLaunches
            again == { j \in 9..Len(L) : L[j] = "resetBufferKernel" }
        IN  /\ ConstructionFirst(L)
            /\ \A k \in ConstructionOnlyKernels : Count(k, L) = 1
            /\ Count("resetBufferKernel", L) = IF Completed THEN 2 ELSE 1
            /\ \A j \in again :
                   /\ j < Len(L)
                   /\ L[j - 1] = "resetSelfVolumesKernel"
                   /\ L[j + 1] = "computeSelfVolumesKernel"
                   /\ \E i \in 9..(j - 1) :
                          L[i] = "InitOverlapTreeKernel_1body_2"

C17_Witness ==
    /\ Completed
    /\ Count("ComputeOverlapTree_1passKernel", StepLaunches) = 1
    /\ Count("resetBufferKernel", StepLaunches) = 2

\* C18: in a step that does not panic the second pass launches init1Body
\* (nominal radii, negated gamma), ResetRescan, InitRescan, Rescan and then
\* resetSelfVolumes, computeSelfVolumes, reduceSelfVolumes, updateForces in
\* that order (resetBuffer sits between resetSelfVolumes and
\* computeSelfVolumes); no tree-building kernel is launched again, and each
\* reduction phase runs exactly twice in the step.
C18_SecondPassOrder ==
    Completed =>
        LET K == SelectSeq(StepLaunches, IsKernel)
            start == IndexOf("InitOverlapTreeKernel_1body_2", K)
        IN  /\ Count("InitOverlapTreeKernel_1body_2", K) = 1
            /\ SubSeq(K, start, Len(K)) =
                   << "InitOverlapTreeKernel_1body_2",
                      "ResetRescanOverlapTreeKernel",
                      "InitRescanOverlapTreeKernel", "RescanOverlapTreeKernel",
                      "resetSelfVolumesKernel", "resetBufferKernel",
                      "computeSelfVolumesKernel",
                      "reduceSelfVolumesKernel_buffer",
                      "updateSelfVolumesForcesKernel" >>
            /\ \A k \in ConstructionOnlyKernels : Count(k, K) = 1
            /\ \A k \in ReductionKernels : Count(k, K) = 2

C18_Witness ==
    /\ Completed
    /\ Launched("RescanOverlapTreeKernel")
    /\ Count("updateSelfVolumesForcesKernel", StepLaunches) = 2

\* C19 (as claimed): the host waits on the panic-download event after the
\* last construction phase and before any reduction-pipeline phase is
\* launched; a panicking step launches no reduction phase.
C19_WaitBeforeAnyReduction ==
    Returned("execute") =>
        LET L == StepLaunches
            wait == IndexOf("cuEventSynchronize", L)
        IN  /\ Count("cuEventSynchronize", L) = 1
            /\ IndexOf("ComputeOverlapTree_1passKernel", L) < wait
            /\ \A j \in 1..Len(L) : L[j] \in ReductionKernels => j > wait
            /\ Panicked => \A j \in 1..Len(L) : L[j] \notin ReductionKernels

\* C19 (amended): the host waits on the panic-download event once, after
\* the last construction phase, the asynchronous download, the event record
\* and the launch of the first resetSelfVolumes, and before any
\* computeSelfVolumes, reduceSelfVolumes or updateForces launch; a panicking
\* step ends at the wait, with that one resetSelfVolumes as its only
\* reduction-pipeline launch.
C19_WaitBeforeVolumeReduction ==
    Returned("execute") =>
        LET L == StepLaunches
            wait == IndexOf("cuEventSynchronize", L)
        IN  /\ Count("cuEventSynchronize", L) = 1
            /\ wait = 12
            /\ SubSeq(L, 8, 12) =
                   << "ComputeOverlapTree_1passKernel", "PanicButton->download",
                      "cuEventRecord", "resetSelfVolumesKernel",
                      "cuEventSynchronize" >>
            /\ \A j \in 1..Len(L) : L[j] \in VolumeReductionKernels => j > wait
            /\ Panicked => Len(L) = wait

C19_Witness ==
    /\ Panicked
    /\ Launched("cuEventSynchronize")
    /\ Count("resetSelfVolumesKernel", StepLaunches) = 1
    /\ ~Launched("computeSelfVolumesKernel")

\* C20 (as claimed): the wait on downloadPanicButtonEvent is the only
\* operation of executeGVolSA at which the host blocks on the device.
C20_OnlyBlockingPoint ==
    Returned("execute") =>
        \A j \in 1..Len(StepLaunches) :
            Blocking(StepLaunches[j]) => StepLaunches[j] = "cuEventSynchronize"

----------------------------------------------------------------------------
(* The panic handshake and the rebuild of the tree *)

\* C21: the pinned page only ever holds what the download of the device
\* panic array put there (the two differ only while a download is queued);
\* in every execute the download follows
\* ComputeOverlapTree_1pass, the event is recorded after the download and the
\* host waits on it before it tests the page, and the flags it tests are
\* those of this step's construction: entry 0 tells an overflow of the tree
\* or of the scratch buffer, entry 1 an overflow of the scratch buffer.
C21_PinnedPageIsCurrent ==
    /\ ~InStream("PanicButton->download") => pinnedPanicButtonMemory = PanicButton
    /\ Returned("execute") =>
          LET L == StepLaunches
          IN  /\ \A k \in {"PanicButton->download", "cuEventRecord",
                            "cuEventSynchronize"} : Count(k, L) = 1
              /\ IndexOf("ComputeOverlapTree_1passKernel", L)
                     < IndexOf("PanicButton->download", L)
              /\ IndexOf("PanicButton->download", L) < IndexOf("cuEventRecord", L)
              /\ IndexOf("cuEventRecord", L) < IndexOf("cuEventSynchronize", L)
              /\ \A j \in 1..Len(L) :
                     L[j] \in VolumeReductionKernels
                         => j > IndexOf("cuEventSynchronize", L)
              /\ (pinnedPanicButtonMemory[0] > 0)
                     <=> (TreeOverflow(gtree, positions)
                            \/ TempOverflow(gtree, positions))
              /\ (pinnedPanicButtonMemory[1] > 0) <=> TempOverflow(gtree, positions)

\* a step completes on a tree that was rebuilt after a panic: the flags of
\* the panicking step are not seen again
C21_Witness ==
    /\ Completed
    /\ "accumulationBuffers" \in leaked
    /\ pinnedPanicButtonMemory = ZeroPanic
    /\ Launched("cuEventSynchronize")

\* C22: an execute runs executeInitKernels if and only if no execute was
\* called since initialize or the execute before it panicked; it runs it
\* once, ahead of the construction kernels.
C22_LazyInitTrigger ==
    [][ (kstate = "initialized" /\ call'.op = "execute") =>
          /\ Count("executeInitKernels", launches') <= 1
          /\ (hostAt = "idle" /\ hostAt' # "idle") =>
                 (Launched("executeInitKernels")' <=>
                      (~executed \/ consecutivePanics > 0))
          /\ Launched("executeInitKernels")' =>
                 /\ Head(launches') = "executeInitKernels"
                 /\ (InStream("ComputeOverlapTree_1passKernel") /\ stream' = << >>)
                        => PanicButton'
                               = ConstructionPanic(ZeroPanic, gtree', positions)
          /\ Launched("resetTreeKernel")' =>
                 IndexOf("resetTreeKernel", launches')
                     = IF Launched("executeInitKernels")' THEN 2 ELSE 1 ]_vars

\* the execute after a panicking one has rebuilt the tree and panicked again
C22_Witness ==
    /\ Panicked
    /\ consecutivePanics >= 2
    /\ Head(launches) = "executeInitKernels"

\* the latest execute was given up: none of the second pass ran, no energy,
\* host forces invalid, kernels to be set up again
StepAborted ==
    /\ Returned("execute")
    /\ call.ret = 0 /\ call.energy = 0
    /\ ~Launched("RescanOverlapTreeKernel")
    /\ ~forcesValid
    /\ ~hasInitializedKernels

\* the next resize_tree_buffers doubles the scratch buffers
TempBuffersGrowNext ==
    /\ gtree.hasExceededTempBuffer
    /\ resize_tree_buffers(gtree, ForceThreadBlockSize).temp_buffer_size
           = 2 * gtree.temp_buffer_size

\* C23: an execute in which the device set panic entry 1 is given up (zero
\* energy, forces invalid, kernels to be set up again) and the scratch
\* buffers grow at the next rebuild.  The host tests entry 0 alone, which the
\* construction sets whenever it sets entry 1: a step is given up exactly
\* when entry 0 is set, and a step with entry 0 clear runs its second pass.
C23_TempOverflowAborts ==
    Returned("execute") =>
        /\ pinnedPanicButtonMemory[1] > 0 =>
               /\ StepAborted
               /\ TempBuffersGrowNext
               /\ pinnedPanicButtonMemory[0] > 0
        /\ StepAborted <=> pinnedPanicButtonMemory[0] > 0
        /\ pinnedPanicButtonMemory[0] = 0 =>
               Launched("RescanOverlapTreeKernel")

\* a step that exceeded the scratch buffers was given up and marked them
C23_Witness ==
    /\ StepAborted
    /\ TempOverflow(gtree, positions)
    /\ pinnedPanicButtonMemory[0] > 0 /\ pinnedPanicButtonMemory[1] > 0
    /\ gtree.hasExceededTempBuffer

\* a step in which an execute sizes the tree: executeInitKernels past the
\* download of the positions
SizingStep ==
    /\ kstate = "initialized"
    /\ call.op = "execute"
    /\ hostAt = "posq"
    /\ hostAt' = "event"

\* a step that is an execute rebuilding the tree after a panic
RegrowStep == SizingStep /\ executed

\* C24 (as claimed): the first tree is sized with tree_size_boost = 2 and
\* every regrow doubles tree_size_boost.
C24_BoostDoubledOnRegrow ==
    [][ /\ (SizingStep /\ ~executed) => gtree'.tree_size_boost = 2
        /\ RegrowStep => gtree'.tree_size_boost = 2 * gtree.tree_size_boost ]_vars

\* C25 (as claimed): after an execute that sized the tree arrays, every array
\* of the store has one live allocation and no earlier allocation of it is
\* left unfreed.
C25_RegrowFreesBeforeResize ==
    (Returned("execute") /\ Launched("executeInitKernels")) =>
        /\ {"treeArrays", "accumulationBuffers"} \subseteq live
        /\ leaked = {}
        /\ freedTwice = {}

----------------------------------------------------------------------------
(* The tree store *)

\* the tree store was destroyed after two calls of resize_tree_buffers that
\* no init_tree_size separates
DestroyedAfterRepeatedResize ==
    kstate = "treeDestroyed" /\ resizesSinceInit >= 2

\* C26 (as claimed): resize_tree_buffers twice without an init_tree_size in
\* between, then the destructor: some array is freed twice.
C26_RepeatedResizeDoubleFrees ==
    DestroyedAfterRepeatedResize => freedTwice # {}

\* C26 (amended): on that path no array is freed twice; the arrays guarded
\* by `if (X) delete X` are freed once per allocation, and the accumulation
\* buffers of every resize but the last are never freed.
C26_RepeatedResizeLeaks ==
    DestroyedAfterRepeatedResize =>
        /\ freedTwice = {}
        /\ leaked = {"accumulationBuffers"}
        /\ live = {}

C26_Witness ==
    /\ DestroyedAfterRepeatedResize
    /\ call.op = "~CudaOverlapTree"
    /\ "accumulationBuffers" \in leaked
    /\ "treeArrays" \in dangling

Max(a, b) == IF a >= b THEN a ELSE b

\* the latest call was an init_tree_size that ran to its end
TreeSized == call.op = "init_tree_size" /\ kstate = "tree"

\* C27: the budget init_tree_size computes for an atom is
\* max(saved_noverlaps[i], current[i] + 1), with saved_noverlaps[i] = 0 on the
\* first call, and is at least 1.
C27_BudgetIsMax ==
    /\ \A sv \in 0..(MaxTreeAtoms + 1), c \in 0..(MaxTreeAtoms + 1) :
          /\ NoverlapsBudget(sv, c) = Max(sv, c + 1)
          /\ NoverlapsBudget(sv, c) >= 1
    /\ TreeSized =>
          \A i \in 0..(numParticles - 1) :
              /\ call.first => call.saved[i] = 0
              /\ gtree.saved_noverlaps[i]
                     = Max(call.saved[i], call.current[i] + 1)
              /\ gtree.saved_noverlaps[i] >= 1

\* one atom keeps its saved count, another takes the current count plus one
C27_Witness ==
    /\ TreeSized
    /\ \E i, j \in 0..(numParticles - 1) :
          /\ call.saved[i] > call.current[i] + 1
          /\ gtree.saved_noverlaps[i] = call.saved[i]
          /\ call.current[j] + 1 > call.saved[j]
          /\ gtree.saved_noverlaps[j] = call.current[j] + 1

\* C28: no call on the tree store lowers saved_noverlaps[i], and after
\* init_tree_size it is at least the budget the oracle's count asks for.
C28_CeilingNeverDecreases ==
    [][ (gtree.has_saved_noverlaps /\ kstate' = "tree") =>
          \A i \in 0..(numParticles - 1) :
              /\ gtree'.saved_noverlaps[i] >= gtree.saved_noverlaps[i]
              /\ call'.op = "init_tree_size"
                     => gtree'.saved_noverlaps[i] >= call'.current[i] + 1 ]_vars

\* a later call with isolated atoms keeps a ceiling of 2
C28_Witness ==
    /\ TreeSized
    /\ ~call.first
    /\ \A i \in 0..(numParticles - 1) : call.current[i] = 0
    /\ \E i \in 0..(numParticles - 1) : gtree.saved_noverlaps[i] = 2

\* the budgets and section indices of the latest init_tree_size
CallBudgets == TreeBudgets(call.saved, numParticles, call.current)
CallSections ==
    ComputeUnitOfAtom(CallBudgets, numParticles, call.num_compute_units)

\* C29 (as claimed): init_tree_size divides by a non-zero number and gives
\* every atom a section index in [0, S).
C29_SectionIndexInRange ==
    call.op = "init_tree_size" =>
        /\ SectionDivisor(CallBudgets, numParticles, call.num_compute_units) # 0
        /\ \A i \in 0..(numParticles - 1) :
               /\ 0 <= CallSections[i]
               /\ CallSections[i] < call.num_compute_units

\* the sum of the budgets of the atoms assigned to section s
SectionBudget(s) ==
    PrefixSum([i \in 0..(numParticles - 1) |->
                 IF CallSections[i] = s THEN CallBudgets[i] ELSE 0],
              numParticles)

\* C30 (as claimed): every section, also one without atoms, is at least as
\* large as the largest per-atom budget.
C30_EverySectionHoldsMaxBudget ==
    TreeSized =>
        \A s \in 0..(gtree.num_sections - 1) :
            gtree.padded_tree_size[s] >= MaxUpTo(CallBudgets, numParticles)

\* C30 (amended): the target size of a section is at least the largest
\* per-atom budget; every section is a multiple of pad_modulo, holds at
\* least tree_size_boost slots and at least tree_size_boost times the
\* budgets of the atoms assigned to it, hence the budget of each of its atoms.
C30_SectionHoldsItsAtoms ==
    TreeSized =>
        /\ SectionDivisor(CallBudgets, numParticles, call.num_compute_units)
               >= MaxUpTo(CallBudgets, numParticles)
        /\ \A s \in 0..(gtree.num_sections - 1) :
               /\ gtree.padded_tree_size[s] % ForceThreadBlockSize = 0
               /\ gtree.padded_tree_size[s] >= gtree.tree_size_boost
               /\ gtree.padded_tree_size[s]
                      >= gtree.tree_size_boost * SectionBudget(s)
               /\ \A i \in 0..(numParticles - 1) :
                      CallSections[i] = s
                          => gtree.padded_tree_size[s] >= CallBudgets[i]

\* a section of one atom next to a section without atoms, both smaller than
\* the largest budget
C30_Witness ==
    /\ TreeSized
    /\ \E s, e \in 0..(gtree.num_sections - 1) :
          /\ gtree.natoms_in_tree[s] = 1
          /\ gtree.natoms_in_tree[e] = 0
          /\ gtree.padded_tree_size[s] < MaxUpTo(CallBudgets, numParticles)
          /\ gtree.padded_tree_size[e] < MaxUpTo(CallBudgets, numParticles)
          /\ gtree.padded_tree_size[s] = gtree.tree_size_boost * SectionBudget(s)

\* C31 (as claimed): after init_tree_size every atom has the slot
\* tree_pointer[section] + (i - first_atom[section]) of the section it was
\* assigned to, inside that section's range; distinct atoms have distinct
\* slots, and the atom ranges of the sections partition 0..N-1.
C31_AtomSlots ==
    TreeSized =>
        LET atoms == 0..(numParticles - 1)
            sections == 0..(gtree.num_sections - 1)
        IN  /\ \A i \in atoms :
                   /\ CallSections[i] \in sections
                   /\ gtree.atom_tree_pointer[i]
                          = gtree.tree_pointer[CallSections[i]]
                              + (i - gtree.first_atom[CallSections[i]])
                   /\ gtree.tree_pointer[CallSections[i]]
                          <= gtree.atom_tree_pointer[i]
                   /\ gtree.atom_tree_pointer[i]
                          < gtree.tree_pointer[CallSections[i]]
                              + gtree.padded_tree_size[CallSections[i]]
            /\ \A i, j \in atoms :
                   i # j => gtree.atom_tree_pointer[i] # gtree.atom_tree_pointer[j]
            /\ \A i \in atoms :
                   Cardinality({ s \in sections :
                                   /\ gtree.first_atom[s] <= i
                                   /\ i < gtree.first_atom[s]
                                             + gtree.natoms_in_tree[s] }) = 1

\* C32: the section ranges tile the node array from 0 to total_tree_size,
\* and every section is a positive multiple of pad_modulo of at least
\* tree_size_boost times the budgets of its atoms.
C32_SectionsTile ==
    TreeSized =>
        LET S == gtree.num_sections
        IN  /\ gtree.tree_pointer[0] = 0
            /\ \A s \in 0..(S - 2) :
                   gtree.tree_pointer[s + 1]
                       = gtree.tree_pointer[s] + gtree.padded_tree_size[s]
            /\ gtree.total_tree_size
                   = gtree.tree_pointer[S - 1] + gtree.padded_tree_size[S - 1]
            /\ gtree.total_tree_size = PrefixSum(gtree.padded_tree_size, S)
            /\ \A s \in 0..(S - 1) :
                   /\ gtree.padded_tree_size[s] > 0
                   /\ gtree.padded_tree_size[s] % ForceThreadBlockSize = 0
                   /\ gtree.padded_tree_size[s]
                          >= gtree.tree_size_boost * SectionBudget(s)

\* three sections or more, one of them with several atoms
C32_Witness ==
    /\ TreeSized
    /\ gtree.num_sections >= 3
    /\ \E s \in 0..(gtree.num_sections - 1) : gtree.natoms_in_tree[s] >= 2
    /\ gtree.tree_pointer[gtree.num_sections - 1] > gtree.tree_pointer[1]

\* the latest init_tree_size kept every section index in range
SizedInRange ==
    TreeSized /\ SectionsInRange(CallBudgets, numParticles, call.num_compute_units)
C31_InRangeOnly == SizedInRange => C31_AtomSlots

\* construction has finished (and the second pass may have run)
AfterConstruction == TreeBuilt \/ devPhase = "rescanned"
\* the nodes stored under the node at slot
ChildrenOf(slot) == { c \in Slots : ov[c].ovLevel > 0 /\ ov[c].ovRootIndex = slot }

\* C33: after construction the children reserved for a node are the
\* children stored under it, and their number is the sum of the node's top
\* and bottom counters (counting and storing admit the same overlaps).
C33_ChildrenCountIsTopPlusBottom ==
    AfterConstruction =>
        \A slot \in Slots :
            /\ ov[slot].ovChildrenCount
                   = ov[slot].ovChildrenCountTop + ov[slot].ovChildrenCountBottom
            /\ Cardinality(ChildrenOf(slot)) = ov[slot].ovChildrenCount
            /\ ChildrenOf(slot) # {} =>
                   ChildrenOf(slot) =
                       ov[slot].ovChildrenStartIndex
                         ..(ov[slot].ovChildrenStartIndex + ov[slot].ovChildrenCount - 1)

\* a root with two children and a neighbour exactly at the inclusion
\* threshold, and a level-3 node under one of the children
C33_Witness ==
    /\ TreeBuilt
    /\ ov[0].ovChildrenCount = 2
    /\ \E j \in 1..DevChildren : pairVolume[j] = VolMinA
    /\ \E slot \in Slots : ov[slot].ovLevel = 3

\* the node's stored switching times its stored volume exceeds SMALL_VOLUME
HeavyNode(c) == Heavy(ov[c].ovVsp, ov[c].ovVolume)
\* under the node at slot, heavy children come before light ones
Segregated(slot) ==
    \A a, b \in ChildrenOf(slot) : (HeavyNode(a) /\ ~HeavyNode(b)) => a < b

\* C34 (as claimed): heavy children have lower slots than light children
\* after init2Body, after the expansion, and after the second-pass rescan
\* for the recomputed values.
C34_SegregatedAlsoAfterRescan ==
    (Init2BodyDone \/ AfterConstruction) => \A slot \in Slots : Segregated(slot)

\* the part of C34 before the rescan
C34_SegregatedAsBuilt ==
    (Init2BodyDone \/ devPhase = "expanding") => \A slot \in Slots : Segregated(slot)

\* C35: whatever the interleaving of the init2Body threads, the admitted
\* children take distinct slots of the root's range, no slot is written
\* twice, and at the end every slot of the range is written once, the heavy
\* children from the low end and the light ones from the high end.
C35_LockFreeAllocation ==
    devPhase = "reserved" =>
        LET start == ov[0].ovChildrenStartIndex
            C == ov[0].ovChildrenCount
            T == ov[0].ovChildrenCountTop
            range == start..(start + C - 1)
            holding == { j \in 1..DevChildren : lanes[j].endslot # -1 }
        IN  /\ \A slot \in Slots : init2Writes[slot] <= 1
            /\ \A j \in holding : lanes[j].endslot \in range
            /\ \A i, j \in holding : i # j => lanes[i].endslot # lanes[j].endslot
            /\ Init2BodyDone =>
                   /\ \A slot \in Slots :
                          init2Writes[slot] = IF slot \in range THEN 1 ELSE 0
                   /\ \A slot \in range : HeavyNode(slot) <=> slot < start + T
                   /\ \A slot \in range : ov[slot].ovLevel = 2

\* three insertions, the heavy ones stored against the order of their atoms
C35_Witness ==
    /\ Init2BodyDone
    /\ ov[0].ovChildrenCountTop >= 2
    /\ ov[0].ovChildrenCountBottom >= 1
    /\ \E i, j \in 1..DevChildren :
           /\ i < j
           /\ lanes[j].endslot # -1
           /\ lanes[i].endslot > lanes[j].endslot
           /\ HeavyNode(lanes[i].endslot)

\* the fields of a node that make up the shape of the tree
Topology(node) ==
    <<node.ovLevel, node.ovLastAtom, node.ovRootIndex, node.ovChildrenStartIndex,
      node.ovChildrenCount, node.ovChildrenCountTop, node.ovChildrenCountBottom>>
RescanStep == TreeBuilt /\ devPhase' = "rescanned"

\* C36: the rescan leaves level, lastAtom, rootIndex, childrenStart,
\* childrenCount and the top and bottom counters of every node as they were.
C36_RescanKeepsTopology ==
    [][RescanStep => \A slot \in Slots : Topology(ov'[slot]) = Topology(ov[slot])]_vars

\* a rescanned tree with a level-3 node and a node whose recomputed volume
\* is at or below the inclusion threshold
C36_Witness ==
    /\ devPhase = "rescanned"
    /\ \E slot \in Slots : ov[slot].ovLevel = 3
    /\ \E slot \in Slots :
           /\ ov[slot].ovLevel = 2
           /\ ov[slot].ovChildrenCount > 0
           /\ ov[slot].ovVolume <= VolMinA
           /\ ov[slot].ovG = 2

\* u^3 (10 - 15 u + 6 u^2) for u = (V - VolMinA) / (VolMinB - VolMinA), in
\* units of 1 / SwitchUnit
HermiteValue(V) ==
    LET D == VolMinB - VolMinA
        n == V - VolMinA
    IN  n * n * n * (10 * D * D - 15 * n * D + 6 * n * n)

\* C37 (as claimed): every stored switching value, also one recomputed by
\* the rescan, is in [0, 1]; it is 1 with derivative 0 for a volume of
\* VolMinB or more and the cubic Hermite value between the thresholds.
C37_SwitchingInRange ==
    \A slot \in Slots :
        (devPhase # "idle" /\ ov[slot].ovLevel >= 2) =>
            /\ 0 <= ov[slot].ovVsp
            /\ ov[slot].ovVsp <= SwitchUnit
            /\ ov[slot].ovVolume >= VolMinB =>
                   /\ ov[slot].ovVsp = SwitchUnit
                   /\ ov[slot].ovVSfp = SwitchUnit
            /\ (VolMinA < ov[slot].ovVolume /\ ov[slot].ovVolume < VolMinB) =>
                   ov[slot].ovVsp = HermiteValue(ov[slot].ovVolume)

\* the part of C37 before the rescan
C37_SwitchingAsBuilt == devPhase # "rescanned" => C37_SwitchingInRange

\* the step is a resize_tree_buffers
ResizeStep ==
    /\ call'.op = "resize_tree_buffers"
    /\ resizesSinceInit' = resizesSinceInit + 1

\* C38: the first resize_tree_buffers sets temp_buffer_size to
\* ov_work_group_size * num_sections * 64; a later one doubles it if the
\* step before set hasExceededTempBuffer and leaves it otherwise; every
\* resize clears the flag, and no step makes temp_buffer_size smaller.
C38_ScratchSizing ==
    [][/\ ResizeStep =>
            /\ gtree'.temp_buffer_size =
                   IF gtree.temp_buffer_size <= 0
                   THEN ForceThreadBlockSize * gtree.num_sections * 64
                   ELSE IF gtree.hasExceededTempBuffer
                        THEN 2 * gtree.temp_buffer_size
                        ELSE gtree.temp_buffer_size
            /\ gtree.temp_buffer_size <= 0 => ~gtree.hasExceededTempBuffer
            /\ ~gtree'.hasExceededTempBuffer
       /\ ~ResizeStep => gtree'.temp_buffer_size = gtree.temp_buffer_size
       /\ gtree'.temp_buffer_size >= gtree.temp_buffer_size]_vars

\* a resize after a step that overflowed the scratch buffers has doubled
\* the size the first resize had set
C38_Witness ==
    /\ call.op = "resize_tree_buffers"
    /\ gtree.temp_buffer_size = 2 * ForceThreadBlockSize * gtree.num_sections * 64
    /\ ~gtree.hasExceededTempBuffer

\* C39: whatever the number of panicking steps in a row, the execute after
\* a panicking step sets the kernels up again and runs the step, and
\* neither it nor the panicking step raises an error; the layout it
\* rebuilds is not compared with the one that overflowed.
C39_PanicRetriesForever ==
    [][/\ (Panicked /\ call'.op = "execute") =>
              /\ ~call.threw
              /\ ~call'.threw
              /\ kstate' = "initialized"
              /\ launches' = << "executeInitKernels" >>
       /\ (consecutivePanics > 0 /\ hostAt # "idle" /\ Returned("execute")') =>
              /\ ~call'.threw
              /\ kstate' = "initialized"
              /\ Head(launches') = "executeInitKernels"
              /\ Launched("ComputeOverlapTree_1passKernel")'
              /\ Launched("cuEventSynchronize")']_vars

\* a panicking step that was itself a retry, after as many panicking steps
\* in a row as are counted, on a layout of the capacity of the first one
C39_Witness ==
    /\ Panicked
    /\ consecutivePanics = PanicLimit
    /\ Head(launches) = "executeInitKernels"
    /\ ~call.threw
    /\ gtree.tree_size_boost = NewOverlapTree.tree_size_boost
    /\ TreeOverflow(gtree, positions)

\* C40 (as claimed): in every lifecycle state, also before initialize and
\* after initialize on a system without atoms, the destructor and execute
\* use and release only what was created: never the unset tree-store
\* pointer, never the event that was not created.
C40_OnlyCreatedResourcesUsed ==
    /\ unsetUsed = {}
    /\ kstate # "crashed"

\* the part of C40 for a kernel initialized on a system with atoms
C40_CreatedKernelIsSafe ==
    (call.op = "destroy" /\ numParticles > 0 /\ gvol_force # NULL)
        => (unsetUsed = {} /\ kstate = "destroyed")

====
